---- MODULE Spec2Model ----
(***************************************************************************)
(* AgencyMRR: the metrics ingestion and ranking pipeline.                  *)
(*                                                                         *)
(* The persistent store (supabase/schema.sql, migrations/sponsorships.sql) *)
(* is the state; every route handler is one action.  Dates are day         *)
(* numbers (new Date().toISOString().split("T")[0]); ids are the insertion *)
(* index of a row (rows are never deleted by any handler).                 *)
(***************************************************************************)
EXTENDS Integers, Sequences, FiniteSets, Bags, TLC

VARIABLES
    connections,     \* provider_connections rows, in insertion order
    tokens,          \* provider_tokens rows
    metricsCurrent,  \* startup_metrics_current: startup id -> row or NoMetrics
    history,         \* startup_metrics_history rows (a bag: the table has no key but id)
    sponsorships,    \* sponsorships rows, in insertion order
    sessions,        \* checkout sessions created at the billing provider
    today,           \* the current calendar day
    cronSecret,      \* process.env.CRON_SECRET ("" when not configured)
    lastOp,          \* the last request handled and its response
    syncedToday,     \* startups a batch sync has synced successfully on the current day
    delivered,       \* checkout sessions whose completed event was processed
    unsubscribed,    \* created subscriptions whose deleted event was processed
    inflight         \* the callback requests in progress, by request slot

vars == <<connections, tokens, metricsCurrent, history, sponsorships, sessions,
          today, cronSecret, lastOp, syncedToday, delivered, unsubscribed, inflight>>

syncVars == <<connections, tokens, metricsCurrent, history>>

-----------------------------------------------------------------------------
(* Bounds of the model *)

MaxDay == 1
MaxHistory == 3
MaxSponsorships == 2
MaxSessions == 3

-----------------------------------------------------------------------------
(* The startups table: filled by the submission form before any of the     *)
(* modelled handlers runs, and never changed by them.                      *)

Startups ==
    { [id |-> "s1", slug |-> "acme-inc", country |-> "FI", category |-> "SaaS"],
      [id |-> "s2", slug |-> "nordic-apps", country |-> "SE", category |-> "Agency"],
      [id |-> "s3", slug |-> "delta-co", country |-> "FI", category |-> "Agency"] }

StartupIds == { s.id : s \in Startups }

\* a state parameter naming no startup
UnknownStartupId == "s9"

\* .from("startups").select().eq("id", id).single(): the row, or no data
StartupById(id) ==
    IF id \in StartupIds THEN CHOOSE s \in Startups : s.id = id
    ELSE [id |-> "", slug |-> "", country |-> "", category |-> ""]

NoDate == -1

\* absent startup_metrics_current row
NoMetrics == [none |-> TRUE]

\* what adapter.fetchMetrics can return for a connected account
FetchResults ==
    { [currency |-> "EUR", mrr |-> 500, totalRevenue |-> 12000, last30dRevenue |-> 1500],
      [currency |-> "USD", mrr |-> 1000000, totalRevenue |-> 9000, last30dRevenue |-> 1500] }

\* adapter.fetchMetrics throwing (network error, auth failure, rate limit)
FetchThrows == [error |-> "stripe_api_error"]

FetchOutcomes == FetchResults \cup {FetchThrows}

\* stripe.oauth.token: throws, or answers with account id and access token
TokenThrows == [error |-> "invalid_grant"]

TokenResponses ==
    { [stripe_user_id |-> "acct_1", access_token |-> "sk_1"],
      [stripe_user_id |-> "acct_2", access_token |-> "sk_2"],
      [stripe_user_id |-> "acct_1", access_token |-> ""],
      [stripe_user_id |-> "", access_token |-> "sk_1"] }

\* the responses that name a connected account
TokensWithAccount == { t \in TokenResponses : t.stripe_user_id # "" }

TokenOutcomes == TokenResponses \cup {TokenThrows}

\* store writes that fail (the error object supabase-js returns)
NoFaults == [conn |-> FALSE, token |-> FALSE, current |-> FALSE, hist |-> FALSE]

StoreFaults == [conn : BOOLEAN, token : BOOLEAN, current : BOOLEAN, hist : BOOLEAN]

-----------------------------------------------------------------------------
(* Store helpers *)

\* .maybeSingle() / .single(): the one matching row's index, 0 for no data
\* (no row, or more than one row: PostgREST answers with an error and no data)
SingleIndex(idx) == IF Cardinality(idx) = 1 THEN CHOOSE i \in idx : TRUE ELSE 0

\* a connection lookup that never finds the row
ExistingConnectionMissed(conns, startupId) == 0

\* provider_connections lookup by (startup_id, provider = "stripe")
ExistingConnection(conns, startupId) ==
    SingleIndex({ i \in 1..Len(conns) :
                    conns[i].startup_id = startupId /\ conns[i].provider = "stripe" })

\* a provider_connections table without its uniqueness constraint
NoUniqueConstraint(conns, startupId, provider) == FALSE

\* UNIQUE(startup_id, provider) of provider_connections
ConnectionUniqueViolated(conns, startupId, provider) ==
    \E i \in 1..Len(conns) : conns[i].startup_id = startupId /\ conns[i].provider = provider

\* provider_tokens upsert, onConflict provider_connection_id
UpsertToken(toks, connId, accessToken) ==
    { t \in toks : t.provider_connection_id # connId }
        \cup {[provider_connection_id |-> connId, access_token |-> accessToken]}

\* startup_metrics_current upsert, onConflict startup_id
UpsertCurrent(cur, startupId, m, provider, day) ==
    [cur EXCEPT ![startupId] =
        [currency |-> m.currency, mrr |-> m.mrr, total_revenue |-> m.totalRevenue,
         last_30d_revenue |-> m.last30dRevenue, provider |-> provider,
         provider_last_synced_at |-> day]]

\* a startup_metrics_history row
HistoryRow(startupId, m, provider, day) ==
    [startup_id |-> startupId, currency |-> m.currency, mrr |-> m.mrr,
     total_revenue |-> m.totalRevenue, last_30d_revenue |-> m.last30dRevenue,
     provider |-> provider, snapshot_date |-> day]

\* startup_metrics_history insert: no uniqueness constraint stands in its way
InsertHistory(hist, row) == hist (+) SetToBag({row})

RECURSIVE SumCopies(_, _)
SumCopies(bag, rows) ==
    IF rows = {} THEN 0
    ELSE LET r == CHOOSE x \in rows : TRUE
         IN  CopiesIn(r, bag) + SumCopies(bag, rows \ {r})

\* how many history rows one startup has for one day
HistoryCount(hist, startupId, day) ==
    SumCopies(hist, { h \in BagToSet(hist) :
                        h.startup_id = startupId /\ h.snapshot_date = day })

-----------------------------------------------------------------------------
(* Callback requests in progress: two request slots *)

Slots == {1, 2}

\* no request in a slot
Idle == [pc |-> "idle"]

NoCallbacks == [p \in Slots |-> Idle]

-----------------------------------------------------------------------------
(* Initial state: an empty store beside the startups table *)

Init ==
    /\ connections = <<>>
    /\ tokens = {}
    /\ metricsCurrent = [s \in StartupIds |-> NoMetrics]
    /\ history = EmptyBag
    /\ sponsorships = <<>>
    /\ sessions = <<>>
    /\ today = 0
    /\ cronSecret \in {"", "cron_s3cret"}
    /\ lastOp = [kind |-> "none"]
    /\ syncedToday = {}
    /\ delivered = {}
    /\ unsubscribed = {}
    /\ inflight = NoCallbacks

\* midnight passes
AdvanceDay ==
    /\ today < MaxDay
    /\ today' = today + 1
    /\ syncedToday' = {}
    /\ lastOp' = [kind |-> "tick"]
    /\ UNCHANGED <<connections, tokens, metricsCurrent, history, sponsorships,
                   sessions, cronSecret, delivered, unsubscribed, inflight>>

-----------------------------------------------------------------------------
(* OAuth callback: GET /api/providers/stripe/callback.  Of the row's      *)
(* timestamps only last_synced_at is kept: no handler reads connected_at  *)
(* or updated_at.                                                         *)

SubmitError(indicator) == [to |-> "/submit", error |-> indicator]

StartupConnected(slug) == [to |-> "/startup/" \o slug, connected |-> "1"]

\* a metrics sync that throws inside the callback and so still answers "connected"
SyncRethrown(slug, got) ==
    IF got \notin FetchResults THEN SubmitError("unexpected_error")
    ELSE StartupConnected(slug)

\* the redirect after the immediate metrics sync: its catch block only logs, so
\* the answer is the same whatever the sync did
AfterMetricsSync(slug, got) == StartupConnected(slug)

\* what the callback leaves behind and answers, from the current store
CallbackResult(code, state, tok, fetch, f) ==
    LET keep(redirect, write) ==
            [redirect |-> redirect, connWrite |-> write, fetched |-> [skipped |-> TRUE],
             connections |-> connections, tokens |-> tokens,
             metricsCurrent |-> metricsCurrent, history |-> history]
        startup == StartupById(state)
    IN
    IF code = "" \/ state = "" THEN keep(SubmitError("missing_params"), "none")
    ELSE IF tok = TokenThrows THEN keep(SubmitError("token_exchange_failed"), "none")
    ELSE IF tok.stripe_user_id = "" THEN keep(SubmitError("missing_stripe_account_id"), "none")
    ELSE IF startup.id = "" THEN keep(SubmitError("startup_not_found"), "none")
    ELSE
    LET existing == ExistingConnection(connections, startup.id)
        updated == [connections EXCEPT ![existing] =
                        [@ EXCEPT !.provider_account_id = tok.stripe_user_id,
                                  !.status = "connected",
                                  !.last_synced_at = today]]
        inserted == Append(connections,
                        [id |-> Len(connections) + 1, startup_id |-> startup.id,
                         provider |-> "stripe", provider_account_id |-> tok.stripe_user_id,
                         status |-> "connected", last_synced_at |-> today])
        writeFails == IF existing # 0 THEN f.conn
                      ELSE f.conn \/ ConnectionUniqueViolated(connections, startup.id, "stripe")
    IN
    IF writeFails THEN keep(StartupConnected(startup.slug), "failed")
    ELSE
    LET conns1 == IF existing # 0 THEN updated ELSE inserted
        connectionId == IF existing # 0 THEN existing ELSE Len(inserted)
        toks1 == IF tok.access_token # "" /\ ~f.token
                 THEN UpsertToken(tokens, connectionId, tok.access_token)
                 ELSE tokens
        \* accessToken! is undefined when the exchange gave none: the adapter's calls fail
        got == IF tok.access_token = "" THEN FetchThrows ELSE fetch
        cur1 == IF got \in FetchResults /\ ~f.current
                THEN UpsertCurrent(metricsCurrent, startup.id, got, "stripe", today)
                ELSE metricsCurrent
        hist1 == IF got \in FetchResults /\ ~f.hist
                 THEN InsertHistory(history, HistoryRow(startup.id, got, "stripe", today))
                 ELSE history
    IN  [redirect |-> AfterMetricsSync(startup.slug, got),
         connWrite |-> IF existing # 0 THEN "updated" ELSE "inserted",
         fetched |-> got,
         connections |-> conns1, tokens |-> toks1,
         metricsCurrent |-> cur1, history |-> hist1]

Callback(code, state, tok, fetch, f) ==
    LET r == CallbackResult(code, state, tok, fetch, f) IN
    /\ BagCardinality(r.history) <= MaxHistory
    /\ connections' = r.connections
    /\ tokens' = r.tokens
    /\ metricsCurrent' = r.metricsCurrent
    /\ history' = r.history
    /\ lastOp' = [kind |-> "callback", state |-> state,
                  account |-> IF tok = TokenThrows THEN "" ELSE tok.stripe_user_id,
                  accessToken |-> IF tok = TokenThrows THEN "" ELSE tok.access_token,
                  faults |-> f, redirect |-> r.redirect, connWrite |-> r.connWrite,
                  fetched |-> r.fetched]
    /\ UNCHANGED <<sponsorships, sessions, today, cronSecret, syncedToday, delivered,
                   unsubscribed, inflight>>

-----------------------------------------------------------------------------
(* Provider registry *)

RegisteredProviders == {"stripe"}

\* a registry that hands out an adapter for every provider name
AnyAdapterRegistered(provider) == TRUE

\* getProviderAdapter: the adapter, or the "not registered" error
AdapterRegistered(provider) == provider \in RegisteredProviders

NoAdapterError(provider) ==
    [error |-> "No adapter registered for provider: " \o provider \o ". Available: stripe"]

-----------------------------------------------------------------------------
(* Batch sync: GET /api/cron/sync-metrics *)

Bearer(secret) == "Bearer " \o secret

AuthHeaders == {"", Bearer("cron_s3cret"), Bearer("wrong")}

\* a credential check that only asks for some bearer credential
CronRejectsMissingOnly(authHeader) == cronSecret # "" /\ authHeader = ""

\* the credential check of the cron endpoint
CronRejects(authHeader) == cronSecret # "" /\ authHeader # Bearer(cronSecret)

\* getConnectionsToSync: connected rows that have a token row, with its access token
ConnectionsToSync ==
    LET hasToken(c) == \E t \in tokens : t.provider_connection_id = c.id
        tokenOf(c) == CHOOSE t \in tokens : t.provider_connection_id = c.id
        joined(c) == [id |-> c.id, startup_id |-> c.startup_id, provider |-> c.provider,
                      provider_account_id |-> c.provider_account_id,
                      access_token |-> tokenOf(c).access_token]
        kept[i \in 0..Len(connections)] ==
            IF i = 0 THEN <<>>
            ELSE IF connections[i].status = "connected" /\ hasToken(connections[i])
                 THEN Append(kept[i - 1], joined(connections[i]))
                 ELSE kept[i - 1]
    IN  kept[Len(connections)]

\* the daily-snapshot check of the batch sync: .single() finds the row of today
\* only when there is exactly one; otherwise the row is inserted
BatchHistoryInsert(hist, startupId, m, provider, day) ==
    IF HistoryCount(hist, startupId, day) = 1 THEN hist
    ELSE InsertHistory(hist, HistoryRow(startupId, m, provider, day))

SyncResult(conn, status) ==
    [startup_id |-> conn.startup_id, provider |-> conn.provider, status |-> status]

SyncError(conn, message) ==
    [startup_id |-> conn.startup_id, provider |-> conn.provider, status |-> "error",
     error |-> message]

\* an iteration that stamps last_synced_at before it asks for the adapter
SyncOneStampingFirst(st, conn, out, f) ==
    LET stamped == [st.connections EXCEPT ![conn.id].last_synced_at = today] IN
    IF ~AdapterRegistered(conn.provider)
    THEN [st EXCEPT !.connections = stamped,
                    !.results = Append(@, SyncError(conn, NoAdapterError(conn.provider).error))]
    ELSE IF out = FetchThrows
    THEN [st EXCEPT !.connections = stamped,
                    !.results = Append(@, SyncError(conn, FetchThrows.error))]
    ELSE [connections |-> stamped,
          metricsCurrent |-> IF f.current THEN st.metricsCurrent
                             ELSE UpsertCurrent(st.metricsCurrent, conn.startup_id, out,
                                                conn.provider, today),
          history |-> IF f.hist THEN st.history
                      ELSE BatchHistoryInsert(st.history, conn.startup_id, out,
                                              conn.provider, today),
          results |-> Append(st.results, SyncResult(conn, "success"))]

\* one iteration of the loop: st is the store so far, out the adapter's outcome
SyncOne(st, conn, out, f) ==
    IF ~AdapterRegistered(conn.provider)
    THEN [st EXCEPT !.results = Append(@, SyncError(conn, NoAdapterError(conn.provider).error))]
    ELSE IF out = FetchThrows
    THEN [st EXCEPT !.results = Append(@, SyncError(conn, FetchThrows.error))]
    ELSE [connections |-> [st.connections EXCEPT ![conn.id].last_synced_at = today],
          metricsCurrent |-> IF f.current THEN st.metricsCurrent
                             ELSE UpsertCurrent(st.metricsCurrent, conn.startup_id, out,
                                                conn.provider, today),
          history |-> IF f.hist THEN st.history
                      ELSE BatchHistoryInsert(st.history, conn.startup_id, out,
                                              conn.provider, today),
          results |-> Append(st.results, SyncResult(conn, "success"))]

\* a loop without the per-connection catch: the first throw ends it
RECURSIVE SyncAllAborting(_, _, _, _)
SyncAllAborting(st, conns, outcome, f) ==
    IF conns = <<>> THEN st
    ELSE IF outcome[Head(conns).id] = FetchThrows
    THEN [st EXCEPT !.results = Append(@, SyncError(Head(conns), FetchThrows.error))]
    ELSE SyncAllAborting(SyncOne(st, Head(conns), outcome[Head(conns).id], f),
                         Tail(conns), outcome, f)

RECURSIVE SyncAll(_, _, _, _)
SyncAll(st, conns, outcome, f) ==
    IF conns = <<>> THEN st
    ELSE SyncAll(SyncOne(st, Head(conns), outcome[Head(conns).id], f), Tail(conns), outcome, f)

CountStatus(results, status) ==
    Cardinality({ i \in 1..Len(results) : results[i].status = status })

BatchAnswer(authHeader, status, outcome, results) ==
    [kind |-> "batch", authHeader |-> authHeader, status |-> status, outcome |-> outcome,
     results |-> results, again |-> syncedToday,
     synced |-> CountStatus(results, "success"), failed |-> CountStatus(results, "error")]

BatchSync(authHeader, outcome, f) ==
    LET conns == ConnectionsToSync
        st == SyncAll([connections |-> connections, metricsCurrent |-> metricsCurrent,
                       history |-> history, results |-> <<>>], conns, outcome, f)
        ok == { st.results[i].startup_id :
                    i \in { j \in 1..Len(st.results) : st.results[j].status = "success" } }
    IN
    /\ IF CronRejects(authHeader)
       THEN /\ lastOp' = BatchAnswer(authHeader, 401, <<>>, <<>>)
            /\ UNCHANGED <<connections, metricsCurrent, history, syncedToday>>
       ELSE IF f.conn
       THEN \* getConnectionsToSync throws: the outer catch answers 500
            /\ lastOp' = BatchAnswer(authHeader, 500, <<>>, <<>>)
            /\ UNCHANGED <<connections, metricsCurrent, history, syncedToday>>
       ELSE /\ BagCardinality(st.history) <= MaxHistory
            /\ connections' = st.connections
            /\ metricsCurrent' = st.metricsCurrent
            /\ history' = st.history
            /\ syncedToday' = syncedToday \cup ok
            /\ lastOp' = BatchAnswer(authHeader, 200, outcome, st.results)
    /\ UNCHANGED <<tokens, sponsorships, sessions, today, cronSecret, delivered,
                   unsubscribed, inflight>>

-----------------------------------------------------------------------------
(* Operator-triggered sync of one startup: POST /api/admin/sync/[startupId] *)

ManualSync(cookie, startupId, fetch, f) ==
    LET conn == SingleIndex({ i \in 1..Len(connections) :
                                connections[i].startup_id = startupId
                                /\ connections[i].status = "connected" })
        toks == { t \in tokens : t.provider_connection_id = conn }
        answer(status, got) == [kind |-> "manual", startup |-> startupId,
                                status |-> status, fetched |-> got]
        skipped == [skipped |-> TRUE]
    IN
    /\ IF cookie # "true" THEN lastOp' = answer(401, skipped) /\ UNCHANGED syncVars
       ELSE IF conn = 0 \/ f.conn THEN lastOp' = answer(404, skipped) /\ UNCHANGED syncVars
       ELSE IF toks = {} THEN lastOp' = answer(404, skipped) /\ UNCHANGED syncVars
       ELSE IF ~AdapterRegistered(connections[conn].provider) \/ fetch = FetchThrows
       THEN lastOp' = answer(500, fetch) /\ UNCHANGED syncVars
       ELSE /\ BagCardinality(history) + (IF f.hist THEN 0 ELSE 1) <= MaxHistory
            /\ metricsCurrent' = IF f.current THEN metricsCurrent
                                 ELSE UpsertCurrent(metricsCurrent, startupId, fetch,
                                                    connections[conn].provider, today)
            /\ history' = IF f.hist THEN history
                          ELSE InsertHistory(history, HistoryRow(startupId, fetch,
                                                connections[conn].provider, today))
            /\ connections' = [connections EXCEPT ![conn].last_synced_at = today]
            /\ lastOp' = answer(200, fetch)
            /\ UNCHANGED tokens
    /\ UNCHANGED <<sponsorships, sessions, today, cronSecret, syncedToday, delivered,
                   unsubscribed, inflight>>

-----------------------------------------------------------------------------
(* The connection and metrics pipeline.  An input a handler does not get   *)
(* to read (the token response of a request without code, the metrics of   *)
(* a connection that is not fetched) is not drawn.                         *)

CallbackStep(codes, states, toks, f) ==
    \E code \in codes, state \in states :
        IF code = "" \/ state = ""
        THEN Callback(code, state, TokenThrows, FetchThrows, f)
        ELSE \E tok \in toks :
                IF tok \notin TokensWithAccount \/ state \notin StartupIds
                   \/ tok.access_token = ""
                THEN Callback(code, state, tok, FetchThrows, f)
                ELSE \E fetch \in FetchOutcomes : Callback(code, state, tok, fetch, f)

BatchSyncStep(f) ==
    \E authHeader \in AuthHeaders :
        IF CronRejects(authHeader)
        THEN BatchSync(authHeader, <<>>, f)
        ELSE \E outcome \in [{ ConnectionsToSync[i].id : i \in 1..Len(ConnectionsToSync) }
                                -> FetchOutcomes] :
                BatchSync(authHeader, outcome, f)

ManualSyncStep(ids, f) ==
    \E cookie \in {"", "true"}, startupId \in ids :
        IF cookie # "true" THEN ManualSync(cookie, startupId, FetchThrows, f)
        ELSE \E fetch \in FetchOutcomes : ManualSync(cookie, startupId, fetch, f)

\* one startup's pipeline: every request the handlers can get about it
NextSync ==
    \/ CallbackStep({"", "ac_1"}, {"s1", "", UnknownStartupId}, TokenOutcomes, NoFaults)
    \/ BatchSyncStep(NoFaults)
    \/ ManualSyncStep({"s1", UnknownStartupId}, NoFaults)
    \/ AdvanceDay

SpecSync == Init /\ [][NextSync]_vars

\* one startup's callbacks and batch syncs within one day, when the writes of the
\* callback can fail (a write that follows a failed connection write is not
\* attempted, so its fault is not drawn)
NextSyncFaults ==
    \/ \E f \in { g \in StoreFaults : g.conn => ~(g.token \/ g.current \/ g.hist) } :
            CallbackStep({"ac_1"}, {"s1"},
                         {[stripe_user_id |-> "acct_1", access_token |-> "sk_1"],
                          [stripe_user_id |-> "acct_2", access_token |-> ""]}, f)
    \/ BatchSyncStep(NoFaults)

SpecSyncFaults == Init /\ [][NextSyncFaults]_vars

\* a store that already holds a connection, with its token, of a provider the
\* registry does not name (the schema's provider column takes paddle, braintree,
\* paypal or mollie as well)
InitUnregistered ==
    /\ \E startupId \in {"s1", "s2"} :
          connections = <<[id |-> 1, startup_id |-> startupId, provider |-> "paddle",
                           provider_account_id |-> "pdl_1", status |-> "connected",
                           last_synced_at |-> NoDate]>>
    /\ tokens = {[provider_connection_id |-> 1, access_token |-> "pdl_key"]}
    /\ metricsCurrent = [s \in StartupIds |-> NoMetrics]
    /\ history = EmptyBag
    /\ sponsorships = <<>>
    /\ sessions = <<>>
    /\ today = 0
    /\ cronSecret = ""
    /\ lastOp = [kind |-> "none"]
    /\ syncedToday = {}
    /\ delivered = {}
    /\ unsubscribed = {}
    /\ inflight = NoCallbacks

\* a batch sync: no adapter is called for a connection without a registered one
UnregisteredBatchStep ==
    \E authHeader \in {""},
       outcome \in [{ ConnectionsToSync[i].id : i \in 1..Len(ConnectionsToSync) }
                        -> FetchOutcomes] :
        /\ \A i \in 1..Len(ConnectionsToSync) :
              ~AdapterRegistered(ConnectionsToSync[i].provider)
              => outcome[ConnectionsToSync[i].id] = FetchThrows
        /\ BatchSync(authHeader, outcome, NoFaults)

NextUnregistered ==
    \/ CallbackStep({"ac_1"}, {"s1"}, {[stripe_user_id |-> "acct_1", access_token |-> "sk_1"]},
                    NoFaults)
    \/ UnregisteredBatchStep
    \/ AdvanceDay

SpecUnregistered == InitUnregistered /\ [][NextUnregistered]_vars

\* two startups' pipelines within one day, connected with one account: what the
\* batch sync sees
NextBatch ==
    \/ CallbackStep({"ac_1"}, {"s1", "s2"},
                    {[stripe_user_id |-> "acct_1", access_token |-> "sk_1"],
                     [stripe_user_id |-> "acct_1", access_token |-> ""]}, NoFaults)
    \/ BatchSyncStep(NoFaults)

SpecBatch == Init /\ [][NextBatch]_vars

-----------------------------------------------------------------------------
(* Sponsorship checkout: POST /api/checkout/create-featured *)

\* priceIdMap: process.env.*_PRICE_ID, "" for a type whose variable is not set
PriceIdMap ==
    [featured_listing |-> "price_featured", category_hero |-> "price_hero",
     homepage_sponsor |-> ""]

SponsorshipTypes == DOMAIN PriceIdMap

\* priceIdMap[type]: undefined for a type the map does not name
PriceIdOf(type) == IF type \in SponsorshipTypes THEN PriceIdMap[type] ELSE ""

\* .from("startups").select().eq("slug", slug).single()
StartupBySlug(slug) ==
    IF \E s \in Startups : s.slug = slug THEN CHOOSE s \in Startups : s.slug = slug
    ELSE [id |-> "", slug |-> "", country |-> "", category |-> ""]

\* a checkout that records the sponsorship as already paid
ActiveSponsorshipAtCheckout(rows, startup, type, priceId, sessionId) ==
    [id |-> Len(rows) + 1, startup_id |-> startup.id, type |-> type,
     category |-> IF type = "category_hero" THEN startup.category ELSE "",
     status |-> "active", stripe_customer_id |-> 0, stripe_subscription_id |-> 0,
     stripe_price_id |-> priceId, stripe_checkout_session_id |-> sessionId,
     start_date |-> NoDate, end_date |-> NoDate]

\* the row the checkout inserts; ids and created_at follow the insertion order
PendingSponsorship(rows, startup, type, priceId, sessionId) ==
    [id |-> Len(rows) + 1, startup_id |-> startup.id, type |-> type,
     category |-> IF type = "category_hero" THEN startup.category ELSE "",
     status |-> "pending", stripe_customer_id |-> 0, stripe_subscription_id |-> 0,
     stripe_price_id |-> priceId, stripe_checkout_session_id |-> sessionId,
     start_date |-> NoDate, end_date |-> NoDate]

CheckoutError(status, message) == [kind |-> "checkout", status |-> status, error |-> message]

\* sessionOk: stripe.checkout.sessions.create answers; f.conn: the insert fails
CreateCheckout(startupSlug, type, sessionOk, f) ==
    LET priceId == PriceIdOf(type)
        startup == StartupBySlug(startupSlug)
        sessionId == Len(sessions) + 1
        \* the request body, kept with the response
        body == [startupSlug |-> startupSlug, type |-> type]
    IN
    /\ Len(sponsorships) < MaxSponsorships
    /\ Len(sessions) < MaxSessions
    /\ IF startupSlug = ""
       THEN lastOp' = CheckoutError(400, "Startup slug is required") @@ body
            /\ UNCHANGED <<sponsorships, sessions>>
       ELSE IF type = ""
       THEN lastOp' = CheckoutError(400, "Sponsorship type is required") @@ body
            /\ UNCHANGED <<sponsorships, sessions>>
       ELSE IF priceId = ""
       THEN lastOp' = CheckoutError(500, "Price ID not configured for sponsorship type: "
                                             \o type) @@ body
            /\ UNCHANGED <<sponsorships, sessions>>
       ELSE IF startup.id = ""
       THEN lastOp' = CheckoutError(404, "Startup not found. Please check the slug and "
                                             \o "try again.") @@ body
            /\ UNCHANGED <<sponsorships, sessions>>
       ELSE IF ~sessionOk
       THEN lastOp' = CheckoutError(500, "Failed to create checkout session") @@ body
            /\ UNCHANGED <<sponsorships, sessions>>
       ELSE /\ sessions' = Append(sessions, [id |-> sessionId, startup_id |-> startup.id,
                                             type |-> type])
            /\ sponsorships' = IF f.conn THEN sponsorships
                               ELSE Append(sponsorships,
                                           PendingSponsorship(sponsorships, startup, type,
                                                              priceId, sessionId))
            /\ lastOp' = [kind |-> "checkout", status |-> 200, sessionId |-> sessionId,
                          inserted |-> ~f.conn] @@ body
    /\ UNCHANGED <<connections, tokens, metricsCurrent, history, today, cronSecret,
                   syncedToday, delivered, unsubscribed, inflight>>

-----------------------------------------------------------------------------
(* Billing webhook: POST /api/stripe/webhook *)

WebhookSecret == "whsec_1"

\* the stripe-signature header the billing provider computes with a secret
SignatureWith(secret) == "v1=" \o secret

\* a verification that accepts any signature header of the right form
SignatureWellFormed(sig) == sig # ""

\* stripe.webhooks.constructEvent: verifies the header against the configured secret
SignatureVerifies(sig) == sig = SignatureWith(WebhookSecret)

\* a handler whose fallback takes the oldest pending row instead
CompletedActivatingOldestPending(rows, session, f) ==
    LET activate(i) == [rows EXCEPT ![i] =
                            [@ EXCEPT !.status = "active",
                                      !.stripe_customer_id = session.customer,
                                      !.stripe_subscription_id = session.subscription,
                                      !.start_date = today]]
        found == SingleIndex({ i \in 1..Len(rows) :
                                rows[i].stripe_checkout_session_id = session.id })
        pending == { i \in 1..Len(rows) :
                        /\ rows[i].startup_id = session.startup_id
                        /\ rows[i].type = session.type
                        /\ rows[i].status = "pending" }
        fallback == IF pending = {} THEN 0
                    ELSE CHOOSE i \in pending : \A j \in pending : i <= j
    IN
    IF session.startup_id = "" \/ session.type = "" \/ session.customer = 0
       \/ session.subscription = 0
    THEN [rows |-> rows, threw |-> FALSE]
    ELSE IF found = 0
    THEN [rows |-> IF fallback # 0 /\ ~f.conn THEN activate(fallback) ELSE rows,
          threw |-> FALSE]
    ELSE IF f.conn THEN [rows |-> rows, threw |-> TRUE]
    ELSE [rows |-> activate(found), threw |-> FALSE]

\* handleCheckoutSessionCompleted; f.conn: the update of the found row fails
HandleCheckoutSessionCompleted(rows, session, f) ==
    LET activate(i) == [rows EXCEPT ![i] =
                            [@ EXCEPT !.status = "active",
                                      !.stripe_customer_id = session.customer,
                                      !.stripe_subscription_id = session.subscription,
                                      !.start_date = today]]
        found == SingleIndex({ i \in 1..Len(rows) :
                                rows[i].stripe_checkout_session_id = session.id })
        pending == { i \in 1..Len(rows) :
                        /\ rows[i].startup_id = session.startup_id
                        /\ rows[i].type = session.type
                        /\ rows[i].status = "pending" }
        \* order by created_at descending, limit 1
        fallback == IF pending = {} THEN 0
                    ELSE CHOOSE i \in pending : \A j \in pending : j <= i
    IN
    IF session.startup_id = "" \/ session.type = "" \/ session.customer = 0
       \/ session.subscription = 0
    THEN [rows |-> rows, threw |-> FALSE]
    ELSE IF found = 0
    THEN [rows |-> IF fallback # 0 /\ ~f.conn THEN activate(fallback) ELSE rows,
          threw |-> FALSE]
    ELSE IF f.conn THEN [rows |-> rows, threw |-> TRUE]
    ELSE [rows |-> activate(found), threw |-> FALSE]

\* a handler that also clears the end date of the row it re-activates
InvoicePaidClearingEndDate(rows, invoice, f) ==
    LET found == SingleIndex({ i \in 1..Len(rows) :
                                rows[i].stripe_subscription_id = invoice.subscription })
    IN
    IF invoice.subscription = 0 THEN [rows |-> rows, threw |-> FALSE]
    ELSE IF found # 0 /\ rows[found].status # "active" /\ ~f.conn
    THEN [rows |-> [rows EXCEPT ![found] = [@ EXCEPT !.status = "active",
                                                     !.end_date = NoDate]],
          threw |-> FALSE]
    ELSE [rows |-> rows, threw |-> FALSE]

\* handleInvoicePaid
HandleInvoicePaid(rows, invoice, f) ==
    LET found == SingleIndex({ i \in 1..Len(rows) :
                                rows[i].stripe_subscription_id = invoice.subscription })
    IN
    IF invoice.subscription = 0 THEN [rows |-> rows, threw |-> FALSE]
    ELSE IF found # 0 /\ rows[found].status # "active" /\ ~f.conn
    THEN [rows |-> [rows EXCEPT ![found].status = "active"], threw |-> FALSE]
    ELSE [rows |-> rows, threw |-> FALSE]

\* a handler that cancels every sponsorship of the startup whose subscription ended
DeletedCancellingWholeStartup(rows, subscription, f) ==
    LET found == SingleIndex({ i \in 1..Len(rows) :
                                rows[i].stripe_subscription_id = subscription.id })
    IN
    IF found = 0 THEN [rows |-> rows, threw |-> FALSE]
    ELSE IF f.conn THEN [rows |-> rows, threw |-> TRUE]
    ELSE [rows |-> [i \in 1..Len(rows) |->
                      IF rows[i].startup_id = rows[found].startup_id
                      THEN [rows[i] EXCEPT !.status = "cancelled", !.end_date = today]
                      ELSE rows[i]],
          threw |-> FALSE]

\* handleSubscriptionDeleted
HandleSubscriptionDeleted(rows, subscription, f) ==
    LET found == SingleIndex({ i \in 1..Len(rows) :
                                rows[i].stripe_subscription_id = subscription.id })
    IN
    IF found = 0 THEN [rows |-> rows, threw |-> FALSE]
    ELSE IF f.conn THEN [rows |-> rows, threw |-> TRUE]
    ELSE [rows |-> [rows EXCEPT ![found] =
                        [@ EXCEPT !.status = "cancelled", !.end_date = today]],
          threw |-> FALSE]

\* the events the billing provider can send about the sessions created so far:
\* a session's customer and subscription carry the session's number
CompletedEvent(session) ==
    [type |-> "checkout.session.completed",
     object |-> [id |-> session.id, startup_id |-> session.startup_id,
                 type |-> session.type, customer |-> session.id,
                 subscription |-> session.id]]

\* a session of the same billing account that this application did not create
ForeignCompletedEvent ==
    [type |-> "checkout.session.completed",
     object |-> [id |-> 99, startup_id |-> "", type |-> "", customer |-> 99,
                 subscription |-> 99]]

InvoicePaidEvent(subscriptionId) ==
    [type |-> "invoice.paid", object |-> [subscription |-> subscriptionId]]

SubscriptionDeletedEvent(subscriptionId) ==
    [type |-> "customer.subscription.deleted", object |-> [id |-> subscriptionId]]

PaymentFailedEvent == [type |-> "invoice.payment_failed", object |-> [id |-> 0]]

WebhookEvents ==
    { CompletedEvent(sessions[i]) : i \in 1..Len(sessions) }
        \cup { InvoicePaidEvent(n) : n \in 0..Len(sessions) }
        \cup { SubscriptionDeletedEvent(n) : n \in 1..Len(sessions) }
        \cup { ForeignCompletedEvent, SubscriptionDeletedEvent(99), PaymentFailedEvent }

WebhookAnswer(sig, event, status, handler) ==
    [kind |-> "webhook", sig |-> sig, event |-> event, status |-> status,
     handler |-> handler, redelivery |-> event.type = "checkout.session.completed"
                                         /\ event.object.id \in delivered]

Webhook(sig, event, f) ==
    LET r == IF event.type = "checkout.session.completed"
             THEN HandleCheckoutSessionCompleted(sponsorships, event.object, f)
             ELSE IF event.type = "invoice.paid"
             THEN HandleInvoicePaid(sponsorships, event.object, f)
             ELSE IF event.type = "customer.subscription.deleted"
             THEN HandleSubscriptionDeleted(sponsorships, event.object, f)
             ELSE [rows |-> sponsorships, threw |-> FALSE]
        handler == IF event.type \in {"checkout.session.completed", "invoice.paid",
                                      "customer.subscription.deleted"}
                   THEN event.type ELSE "log"
    IN
    /\ IF sig = "" \/ ~SignatureVerifies(sig)
       THEN /\ lastOp' = WebhookAnswer(sig, event, 400, "none")
            /\ UNCHANGED <<sponsorships, delivered, unsubscribed>>
       ELSE /\ sponsorships' = r.rows
            /\ lastOp' = WebhookAnswer(sig, event, IF r.threw THEN 500 ELSE 200, handler)
            /\ delivered' = IF event.type = "checkout.session.completed" /\ ~r.threw
                            THEN delivered \cup {event.object.id}
                            ELSE delivered
            /\ unsubscribed' = IF /\ event.type = "customer.subscription.deleted"
                                  /\ event.object.id \in 1..Len(sessions)
                                  /\ ~r.threw
                               THEN unsubscribed \cup {event.object.id}
                               ELSE unsubscribed
    /\ UNCHANGED <<connections, tokens, metricsCurrent, history, sessions, today,
                   cronSecret, syncedToday, inflight>>

-----------------------------------------------------------------------------
(* Admin deactivation: POST /api/admin/sponsorships/[id]/deactivate *)

AdminDeactivate(cookie, sponsorshipId, f) ==
    /\ IF cookie # "true"
       THEN lastOp' = [kind |-> "deactivate", id |-> sponsorshipId, status |-> 401]
            /\ UNCHANGED sponsorships
       ELSE IF f.conn
       THEN lastOp' = [kind |-> "deactivate", id |-> sponsorshipId, status |-> 500]
            /\ UNCHANGED sponsorships
       ELSE /\ sponsorships' = [i \in 1..Len(sponsorships) |->
                                  IF sponsorships[i].id = sponsorshipId
                                  THEN [sponsorships[i] EXCEPT !.status = "cancelled",
                                                               !.end_date = today]
                                  ELSE sponsorships[i]]
            /\ lastOp' = [kind |-> "deactivate", id |-> sponsorshipId, status |-> 200]
    /\ UNCHANGED <<connections, tokens, metricsCurrent, history, sessions, today,
                   cronSecret, syncedToday, delivered, unsubscribed, inflight>>

-----------------------------------------------------------------------------
(* The sponsorship subsystem, for one startup's sponsorships *)

CreateCheckoutStep(f) ==
    /\ Len(sessions) < MaxSponsorships
    /\ \E startupSlug \in {"", "acme-inc", "no-such-startup"},
          type \in SponsorshipTypes \cup {""}, sessionOk \in BOOLEAN :
           CreateCheckout(startupSlug, type, sessionOk, f)

WebhookStep(f) ==
    \E sig \in {"", SignatureWith(WebhookSecret), SignatureWith("forged")},
       event \in WebhookEvents :
        Webhook(sig, event, f)

AdminDeactivateStep(f) ==
    \E cookie \in {"", "true"}, sponsorshipId \in 1..MaxSponsorships :
        AdminDeactivate(cookie, sponsorshipId, f)

NextSponsor ==
    \/ CreateCheckoutStep(NoFaults)
    \/ WebhookStep(NoFaults)
    \/ AdminDeactivateStep(NoFaults)
    \/ AdvanceDay

\* the sponsorship handlers do not read the cron secret
InitSponsor == Init /\ cronSecret = ""

SpecSponsor == InitSponsor /\ [][NextSponsor]_vars

\* checkouts whose insert of the pending row can fail, and the webhook requests
\* that follow them
InsertFaults == {NoFaults, [NoFaults EXCEPT !.conn = TRUE]}

NextCheckout ==
    \/ \E f \in InsertFaults : CreateCheckoutStep(f)
    \/ WebhookStep(NoFaults)

SpecCheckout == InitSponsor /\ [][NextCheckout]_vars

\* the completed events of the sessions created so far, correctly signed
CompletedStep ==
    \E i \in 1..Len(sessions) :
        Webhook(SignatureWith(WebhookSecret), CompletedEvent(sessions[i]), NoFaults)

\* checkouts of two startups that the billing provider accepts
AcceptedCheckoutStep ==
    \E startupSlug \in {"acme-inc", "nordic-apps"},
       type \in {"featured_listing", "category_hero"}, f \in InsertFaults :
        CreateCheckout(startupSlug, type, TRUE, f)

\* two startups' checkouts, whose pending row may be missing, and their events
NextFallback ==
    \/ AcceptedCheckoutStep
    \/ CompletedStep

SpecFallback == InitSponsor /\ [][NextFallback]_vars

-----------------------------------------------------------------------------
(* Ranked list: getStartupsWithMetrics *)

\* no sponsorship attached (null)
NoSponsorship == [none |-> TRUE]

\* a.metrics?.[sortBy] || 0
SortValue(metrics, sortBy) ==
    IF metrics = NoMetrics THEN 0
    ELSE IF sortBy = "mrr" THEN metrics.mrr
    ELSE IF sortBy = "last_30d_revenue" THEN metrics.last_30d_revenue
    ELSE metrics.total_revenue

\* a partition left in the order of the array
KeepOrder(idx, value) ==
    LET place(i) == 1 + Cardinality({ j \in idx : j < i })
    IN  [k \in 1..Cardinality(idx) |-> CHOOSE i \in idx : place(i) = k]

\* Array.prototype.sort with (a, b) => bVal - aVal over the entries at the indexes
\* idx of an array: descending by value, and stable, so that entries of equal value
\* keep the order of their indexes.  value[i] is the sort value of entry i.
SortDesc(idx, value) ==
    LET place(i) == 1 + Cardinality({ j \in idx : \/ value[j] > value[i]
                                                  \/ value[j] = value[i] /\ j < i })
    IN  [k \in 1..Cardinality(idx) |-> CHOOSE i \in idx : place(i) = k]

\* a sponsorship query without the status filter
SponsorshipsOfAnyStatus(rows, startupIds) ==
    { i \in 1..Len(rows) : rows[i].startup_id \in startupIds }

\* .from("sponsorships").in("startup_id", startupIds).eq("status", "active")
ActiveSponsorships(rows, startupIds) ==
    { i \in 1..Len(rows) : rows[i].startup_id \in startupIds /\ rows[i].status = "active" }

\* a list that puts the sponsored partition last
RankedListSponsoredLast(sponsored, nonSponsored) == nonSponsored \o sponsored

\* [...sponsored, ...nonSponsored]
RankedList(sponsored, nonSponsored) == sponsored \o nonSponsored

\* stored: the startups rows in the order the store returns them;
\* f.conn: the sponsorship query answers with an error.
\* Every filter keeps the order of the array, so the array after each filter is
\* given by the set of indexes of stored that it keeps.
GetStartupsWithMetrics(stored, filters, f) ==
    LET startupsData ==
            { i \in 1..Len(stored) :
                /\ filters.country # {} => stored[i].country \in filters.country
                /\ filters.category # {} => stored[i].category \in filters.category }
        startupIds == { stored[i].id : i \in startupsData }
        found == IF startupIds = {} \/ f.conn THEN {}
                 ELSE ActiveSponsorships(sponsorships, startupIds)
        \* new Map(rows.map(s => [s.startup_id, s])): a later row replaces an earlier one
        sponsoredBy(id) ==
            LET mine == { i \in found : sponsorships[i].startup_id = id }
            IN  IF mine = {} THEN NoSponsorship
                ELSE sponsorships[CHOOSE i \in mine : \A j \in mine : j <= i]
        entry(i) == [id |-> stored[i].id, metrics |-> metricsCurrent[stored[i].id],
                     sponsorship |-> sponsoredBy(stored[i].id)]
        mrr(i) == SortValue(metricsCurrent[stored[i].id], "mrr")
        byProvider == IF filters.provider = {} THEN startupsData
                      ELSE { i \in startupsData :
                                /\ entry(i).metrics # NoMetrics
                                /\ entry(i).metrics.provider \in filters.provider }
        byMin == IF filters.minMrr = <<>> THEN byProvider
                 ELSE { i \in byProvider : mrr(i) >= filters.minMrr[1] }
        allStartups == IF filters.maxMrr = <<>> THEN byMin
                       ELSE { i \in byMin : mrr(i) <= filters.maxMrr[1] }
        sortBy == IF filters.sortBy = "" THEN "mrr" ELSE filters.sortBy
        isSponsored(i) == IF entry(i).sponsorship = NoSponsorship THEN FALSE
                          ELSE entry(i).sponsorship.status = "active"
        sponsored == { i \in allStartups : isSponsored(i) }
        nonSponsored == allStartups \ sponsored
        value == [i \in 1..Len(stored) |-> SortValue(metricsCurrent[stored[i].id], sortBy)]
        order == RankedList(SortDesc(sponsored, value), SortDesc(nonSponsored, value))
    IN  [list |-> [k \in 1..Len(order) |-> entry(order[k])],
         sponsored |-> Cardinality(sponsored)]

\* the leaderboard page asks for the list
RankedQuery(stored, filters, f) ==
    LET r == GetStartupsWithMetrics(stored, filters, f) IN
    /\ lastOp' = [kind |-> "rank", filters |-> filters, stored |-> stored,
                  list |-> r.list, sponsored |-> r.sponsored]
    /\ UNCHANGED <<connections, tokens, metricsCurrent, history, sponsorships, sessions,
                   today, cronSecret, syncedToday, delivered, unsubscribed, inflight>>

\* filter sets of the leaderboard: an absent bound is <<>>, an absent list is {}
NoFilters ==
    [country |-> {}, category |-> {}, provider |-> {}, minMrr |-> <<>>, maxMrr |-> <<>>,
     sortBy |-> ""]

RankFilters ==
    { NoFilters,
      [NoFilters EXCEPT !.country = {"FI"}, !.maxMrr = <<500>>,
                        !.sortBy = "total_revenue"],
      [NoFilters EXCEPT !.category = {"Agency", "SaaS"}, !.provider = {"stripe"},
                        !.minMrr = <<500>>, !.sortBy = "last_30d_revenue"] }

\* the orders in which the store can return the startups rows (no ORDER BY)
StoredOrders ==
    { o \in [1..Cardinality(Startups) -> Startups] :
        \A i, j \in 1..Cardinality(Startups) : i # j => o[i] # o[j] }

SponsorshipStatuses == {"pending", "active", "cancelled", "expired"}

\* a sponsorships row as the checkout, the webhook handlers and the operator leave it
StoredSponsorship(id, startupId, status) ==
    [id |-> id, startup_id |-> startupId, type |-> "featured_listing", category |-> "",
     status |-> status,
     stripe_customer_id |-> IF status = "pending" THEN 0 ELSE id,
     stripe_subscription_id |-> IF status = "pending" THEN 0 ELSE id,
     stripe_price_id |-> PriceIdMap["featured_listing"],
     stripe_checkout_session_id |-> id,
     start_date |-> IF status = "pending" THEN NoDate ELSE 0,
     end_date |-> IF status \in {"cancelled", "expired"} THEN 0 ELSE NoDate]

\* a startup_metrics_current row a sync has written
StoredMetrics ==
    { UpsertCurrent([s \in StartupIds |-> NoMetrics], "s1", m, "stripe", 0)["s1"] :
        m \in FetchResults }

\* the store at the time of a query: any metrics and any sponsorship rows
InitRank ==
    /\ connections = <<>>
    /\ tokens = {}
    /\ metricsCurrent \in [StartupIds -> StoredMetrics \cup {NoMetrics}]
    /\ history = EmptyBag
    /\ \E n \in 0..MaxSponsorships :
         \E c \in [1..n -> StartupIds \X SponsorshipStatuses] :
            sponsorships = [i \in 1..n |-> StoredSponsorship(i, c[i][1], c[i][2])]
    /\ sessions = <<>>
    /\ today = 0
    /\ cronSecret = ""
    /\ lastOp = [kind |-> "none"]
    /\ syncedToday = {}
    /\ delivered = {}
    /\ unsubscribed = {}
    /\ inflight = NoCallbacks

RankedQueryStep(f) ==
    \E stored \in StoredOrders, filters \in RankFilters : RankedQuery(stored, filters, f)

NextRank == RankedQueryStep(NoFaults)

SpecRank == InitRank /\ [][NextRank]_vars

-----------------------------------------------------------------------------
(* The callback request with its optional error parameter.  The route file  *)
(* holds a second handler (callback/route.ts from line 586) that reads it;  *)
(* which of the two answers a request is not fixed by the source.           *)

\* provider_tokens update of the later handler: changes the row of the connection,
\* if there is one
UpdateToken(toks, connId, accessToken) ==
    IF \E t \in toks : t.provider_connection_id = connId
    THEN UpsertToken(toks, connId, accessToken)
    ELSE toks

\* the later handler: what it leaves behind and answers, from the current store
CallbackLaterResult(code, state, error, tok, fetch, f) ==
    LET keep(redirect, write) ==
            [redirect |-> redirect, connWrite |-> write, fetched |-> [skipped |-> TRUE],
             connections |-> connections, tokens |-> tokens,
             metricsCurrent |-> metricsCurrent, history |-> history]
        startup == StartupById(state)
    IN
    IF error # "" THEN keep(SubmitError(error), "none")
    ELSE IF code = "" \/ state = "" THEN keep(SubmitError("missing_params"), "none")
    ELSE IF startup.id = "" THEN keep(SubmitError("startup_not_found"), "none")
    ELSE IF tok = TokenThrows THEN keep(SubmitError("token_exchange_failed"), "none")
    ELSE IF tok.stripe_user_id = "" \/ tok.access_token = ""
    THEN keep(SubmitError("missing_stripe_data"), "none")
    ELSE
    LET existing == ExistingConnection(connections, startup.id)
        writeFails == IF existing # 0 THEN f.conn
                      ELSE f.conn \/ ConnectionUniqueViolated(connections, startup.id, "stripe")
        conns1 == IF existing # 0
                  THEN [connections EXCEPT ![existing] =
                            [@ EXCEPT !.provider_account_id = tok.stripe_user_id,
                                      !.status = "connected",
                                      !.last_synced_at = today]]
                  ELSE Append(connections,
                            [id |-> Len(connections) + 1, startup_id |-> startup.id,
                             provider |-> "stripe",
                             provider_account_id |-> tok.stripe_user_id,
                             status |-> "connected", last_synced_at |-> today])
        toks1 == IF f.token THEN tokens
                 ELSE IF existing # 0 THEN UpdateToken(tokens, existing, tok.access_token)
                 ELSE UpsertToken(tokens, Len(conns1), tok.access_token)
        cur1 == IF fetch \in FetchResults /\ ~f.current
                THEN UpsertCurrent(metricsCurrent, startup.id, fetch, "stripe", today)
                ELSE metricsCurrent
        hist1 == IF fetch \in FetchResults /\ ~f.hist
                 THEN InsertHistory(history, HistoryRow(startup.id, fetch, "stripe", today))
                 ELSE history
    IN
    \* a failed connection write is thrown to the outer catch
    IF writeFails THEN keep(SubmitError("store_error"), "failed")
    ELSE [redirect |-> StartupConnected(startup.slug),
          connWrite |-> IF existing # 0 THEN "updated" ELSE "inserted",
          fetched |-> fetch,
          connections |-> conns1, tokens |-> toks1,
          metricsCurrent |-> cur1, history |-> hist1]

\* a callback request answered by one of the two handlers; the first one
\* (CallbackResult) does not read the error parameter
CallbackRequest(handler, code, state, error, tok, fetch, f) ==
    LET r == IF handler = "first" THEN CallbackResult(code, state, tok, fetch, f)
             ELSE CallbackLaterResult(code, state, error, tok, fetch, f)
    IN
    /\ BagCardinality(r.history) <= MaxHistory
    /\ connections' = r.connections
    /\ tokens' = r.tokens
    /\ metricsCurrent' = r.metricsCurrent
    /\ history' = r.history
    /\ lastOp' = [kind |-> "callbackRequest", handler |-> handler, code |-> code,
                  state |-> state, error |-> error,
                  exchange |-> IF code = "" THEN "none"
                               ELSE IF tok = TokenThrows THEN "failed" ELSE "ok",
                  redirect |-> r.redirect, connWrite |-> r.connWrite]
    /\ UNCHANGED <<sponsorships, sessions, today, cronSecret, syncedToday, delivered,
                   unsubscribed, inflight>>

\* the requests the provider or anyone else can send to the callback URL; the token
\* endpoint is asked only about a code, the adapter only with an access token
CallbackRequestStep(handler, f) ==
    \E code \in {"", "ac_1"}, state \in {"", "s1", UnknownStartupId},
       error \in {"", "access_denied"} :
        IF code = "" THEN CallbackRequest(handler, code, state, error, TokenThrows,
                                          FetchThrows, f)
        ELSE \E tok \in {TokenThrows,
                         [stripe_user_id |-> "acct_1", access_token |-> "sk_1"]} :
                IF tok = TokenThrows
                THEN CallbackRequest(handler, code, state, error, tok, FetchThrows, f)
                ELSE \E fetch \in FetchOutcomes :
                        CallbackRequest(handler, code, state, error, tok, fetch, f)

NextCallback ==
    \/ CallbackRequestStep("first", NoFaults)
    \/ CallbackRequestStep("later", NoFaults)
    \/ AdvanceDay

SpecCallback == Init /\ [][NextCallback]_vars

-----------------------------------------------------------------------------
(* Properties of the connection and metrics pipeline *)

\* the provider_connections rows of one startup for stripe
StripeRows(conns, startupId) ==
    { i \in 1..Len(conns) : conns[i].startup_id = startupId /\ conns[i].provider = "stripe" }

\* C1: a callback whose token exchange succeeded for a startup leaves exactly one
\* provider_connections row for (startup, stripe), holding the exchanged account with
\* status connected: it inserts the row when there was none, and otherwise updates
\* the row that was there and adds no row.
C1_CallbackUpsertsOneConnection ==
    [][\A s \in StartupIds :
          (lastOp'.kind = "callback" /\ lastOp'.state = s /\ lastOp'.account # "")
          => LET before == StripeRows(connections, s)
                 after == StripeRows(connections', s)
             IN  /\ Cardinality(after) = 1
                 /\ \A i \in after : /\ connections'[i].provider_account_id = lastOp'.account
                                     /\ connections'[i].status = "connected"
                 /\ before = {} => /\ Len(connections') = Len(connections) + 1
                                   /\ lastOp'.connWrite = "inserted"
                 /\ before # {} => /\ after = before
                                   /\ Len(connections') = Len(connections)
                                   /\ lastOp'.connWrite = "updated"]_vars

\* a later callback of a startup has updated the row the first callback inserted
C1_Witness ==
    /\ lastOp.kind = "callback"
    /\ lastOp.connWrite = "updated"
    /\ lastOp.account = "acct_2"
    /\ Cardinality(StripeRows(connections, "s1")) = 1

\* the values a startup_metrics_current row holds are those of one fetch
CurrentHolds(row, m) ==
    /\ row # NoMetrics
    /\ row.currency = m.currency
    /\ row.mrr = m.mrr
    /\ row.total_revenue = m.totalRevenue
    /\ row.last_30d_revenue = m.last30dRevenue

\* C2: after a batch sync that fetched a startup successfully on a day on which an
\* earlier batch sync had already fetched it successfully, the history holds exactly
\* one row for (startup, that day) and the current row holds the second fetch's values.
C2_SecondBatchSyncOfTheDay ==
    \A i \in 1..(IF lastOp.kind = "batch" THEN Len(lastOp.results) ELSE 0) :
        LET r == lastOp.results[i] IN
        (r.status = "success" /\ r.startup_id \in lastOp.again)
        => /\ HistoryCount(history, r.startup_id, today) = 1
           /\ \E c \in DOMAIN lastOp.outcome :
                /\ connections[c].startup_id = r.startup_id
                /\ CurrentHolds(metricsCurrent[r.startup_id], lastOp.outcome[c])

\* C5: a batch sync that passed the credential check answers 200 with one result per
\* connection to sync, in order: an error result carrying the message for a
\* connection whose fetch threw, a success result for every other one, whose metrics
\* are written; synced + failed is the number of connections.
C5_BatchSyncIsolatesFailures ==
    (lastOp.kind = "batch" /\ lastOp.status # 401)
    => LET conns == ConnectionsToSync IN
       /\ lastOp.status = 200
       /\ Len(lastOp.results) = Len(conns)
       /\ lastOp.synced + lastOp.failed = Len(conns)
       /\ \A i \in 1..Len(conns) :
            LET r == lastOp.results[i]
                out == lastOp.outcome[conns[i].id]
            IN  /\ r.startup_id = conns[i].startup_id
                /\ r.provider = conns[i].provider
                /\ IF out = FetchThrows
                   THEN r.status = "error" /\ r.error = FetchThrows.error
                   ELSE /\ r.status = "success"
                        /\ CurrentHolds(metricsCurrent[r.startup_id], out)
                        /\ HistoryCount(history, r.startup_id, today) >= 1
                        /\ connections[conns[i].id].last_synced_at = today

\* a batch sync over two connections: the first one's fetch threw, the second succeeded
C5_Witness ==
    /\ lastOp.kind = "batch"
    /\ lastOp.status = 200
    /\ Len(lastOp.results) = 2
    /\ lastOp.results[1].status = "error"
    /\ lastOp.results[2].status = "success"

\* C6: with a cron secret configured, a batch sync request whose Authorization header
\* is not exactly "Bearer <secret>" is answered 401 and does no work: no adapter
\* outcome is consumed, no result is produced and no row is written.
C6_CronRejectsBeforeAnyWork ==
    [][(lastOp'.kind = "batch" /\ cronSecret # ""
        /\ lastOp'.authHeader # "Bearer " \o cronSecret)
       => /\ lastOp'.status = 401
          /\ lastOp'.results = <<>>
          /\ lastOp'.outcome = <<>>
          /\ UNCHANGED <<connections, tokens, metricsCurrent, history>>]_vars

\* a request with a wrong credential was rejected while a connection was waiting
C6_Witness ==
    /\ lastOp.kind = "batch"
    /\ lastOp.status = 401
    /\ lastOp.authHeader = "Bearer wrong"
    /\ Len(ConnectionsToSync) > 0

\* C8: startup_metrics_history holds at most one row per (startup, calendar day).
C8_OneHistoryRowPerDay ==
    \A s \in StartupIds, d \in 0..MaxDay : HistoryCount(history, s, d) <= 1

\* C10: a callback that stored the connection answers with the redirect to
\* /startup/{slug}?connected=1 and leaves the row connected, also when its metrics
\* fetch threw or a metrics write failed.
C10_CallbackSurvivesSyncFailure ==
    (/\ lastOp.kind = "callback"
     /\ lastOp.connWrite \in {"inserted", "updated"}
     /\ (lastOp.fetched = FetchThrows \/ lastOp.faults.current \/ lastOp.faults.hist))
    => /\ lastOp.redirect = [to |-> "/startup/" \o StartupById(lastOp.state).slug,
                             connected |-> "1"]
       /\ \E i \in 1..Len(connections) :
            /\ connections[i].startup_id = lastOp.state
            /\ connections[i].status = "connected"

\* the connection was stored, the fetch threw, and the callback answered "connected"
C10_Witness ==
    /\ lastOp.kind = "callback"
    /\ lastOp.connWrite = "inserted"
    /\ lastOp.fetched = FetchThrows
    /\ lastOp.redirect.to = "/startup/acme-inc"

-----------------------------------------------------------------------------
(* Properties of the sponsorship subsystem and of the ranked list *)

\* a startup has a sponsorships row whose status is active
HasActiveSponsorship(startupId) ==
    \E i \in 1..Len(sponsorships) :
        sponsorships[i].startup_id = startupId /\ sponsorships[i].status = "active"

\* C3: in the list getStartupsWithMetrics returns, every startup that has an active
\* sponsorship comes before every startup that has none, whatever the filters and
\* the stored metrics.
C3_SponsoredBeforeNonSponsored ==
    lastOp.kind = "rank"
    => \A i, j \in 1..Len(lastOp.list) :
          (HasActiveSponsorship(lastOp.list[i].id) /\ ~HasActiveSponsorship(lastOp.list[j].id))
          => i < j

\* a sponsored startup without metrics is listed before a non-sponsored startup whose
\* MRR is 1,000,000
C3_Witness ==
    /\ lastOp.kind = "rank"
    /\ Len(lastOp.list) >= 2
    /\ HasActiveSponsorship(lastOp.list[1].id)
    /\ lastOp.list[1].metrics = NoMetrics
    /\ ~HasActiveSponsorship(lastOp.list[2].id)
    /\ lastOp.list[2].metrics # NoMetrics
    /\ lastOp.list[2].metrics.mrr = 1000000

\* C4: a second delivery of a checkout.session.completed event that was processed
\* before leaves the session's sponsorship active with the start_date it had.
C4_RedeliveryKeepsStartDate ==
    [][(/\ lastOp'.kind = "webhook"
        /\ lastOp'.status = 200
        /\ lastOp'.event.type = "checkout.session.completed"
        /\ lastOp'.event.object.id \in delivered)
       => \A i \in 1..Len(sponsorships) :
            sponsorships[i].stripe_checkout_session_id = lastOp'.event.object.id
            => /\ sponsorships'[i].status = "active"
               /\ sponsorships'[i].start_date = sponsorships[i].start_date]_vars

\* C7: a webhook request whose signature header is missing or was not computed with
\* the configured secret is answered 400, runs no event handler and changes no
\* sponsorship row.
C7_UnverifiedWebhookRejected ==
    [][(lastOp'.kind = "webhook" /\ lastOp'.sig # "v1=" \o WebhookSecret)
       => /\ lastOp'.status = 400
          /\ lastOp'.handler = "none"
          /\ sponsorships' = sponsorships]_vars

\* a forged completed event for a pending sponsorship was rejected
C7_Witness ==
    /\ lastOp.kind = "webhook"
    /\ lastOp.sig = "v1=forged"
    /\ lastOp.status = 400
    /\ lastOp.event.type = "checkout.session.completed"
    /\ \E i \in 1..Len(sponsorships) :
         /\ sponsorships[i].stripe_checkout_session_id = lastOp.event.object.id
         /\ sponsorships[i].status = "pending"

\* C9: a startup of the ranked list is in the sponsored tier exactly when it has a
\* sponsorships row whose status is active; rows that are pending, cancelled or
\* expired do not put it there.
C9_SponsoredTierIffActive ==
    lastOp.kind = "rank"
    => \A k \in 1..Len(lastOp.list) :
          /\ k <= lastOp.sponsored <=> HasActiveSponsorship(lastOp.list[k].id)
          /\ lastOp.list[k].sponsorship # NoSponsorship
                <=> HasActiveSponsorship(lastOp.list[k].id)

\* the list holds one startup in the sponsored tier and, right below the tier, a
\* startup that has a sponsorships row that is pending, cancelled or expired
C9_Witness ==
    /\ lastOp.kind = "rank"
    /\ lastOp.sponsored = 1
    /\ Len(lastOp.list) >= 2
    /\ Len(sponsorships) = 2
    /\ \E i \in 1..2 : /\ sponsorships[i].startup_id = lastOp.list[2].id
                       /\ sponsorships[i].status \in {"pending", "cancelled", "expired"}

-----------------------------------------------------------------------------
(* Further properties of the OAuth callback *)

\* C11: after a callback that stored the connection and whose adapter returned
\* metrics M, the startup's current row holds M's currency, mrr, total revenue and
\* last-30-day revenue with provider stripe, and the history holds exactly one row
\* of the startup dated today.
C11_CallbackWritesExactMetrics ==
    (lastOp.kind = "callback" /\ lastOp.fetched \in FetchResults)
    => /\ CurrentHolds(metricsCurrent[lastOp.state], lastOp.fetched)
       /\ metricsCurrent[lastOp.state].provider = "stripe"
       /\ HistoryCount(history, lastOp.state, today) = 1

-----------------------------------------------------------------------------
(* Further properties of the ranked list *)

\* the value of the requested sort field of a listed startup: 0 without a metrics row
RequestedValue(entry, filters) ==
    IF entry.metrics = NoMetrics THEN 0
    ELSE IF filters.sortBy = "last_30d_revenue" THEN entry.metrics.last_30d_revenue
    ELSE IF filters.sortBy = "total_revenue" THEN entry.metrics.total_revenue
    ELSE entry.metrics.mrr

\* C12: within the sponsored tier and within the non-sponsored tier of the ranked
\* list the values of the requested sort field (mrr by default, 0 for a startup
\* without metrics row) never increase from one position to the next.
C12_TiersSortedDescending ==
    lastOp.kind = "rank"
    => \A k \in 1..(Len(lastOp.list) - 1) :
          (k + 1 <= lastOp.sponsored \/ k > lastOp.sponsored)
          => RequestedValue(lastOp.list[k], lastOp.filters)
                >= RequestedValue(lastOp.list[k + 1], lastOp.filters)

\* two non-sponsored startups listed by total revenue: the store returned the one
\* without metrics first, the list has it last
C12_Witness ==
    /\ lastOp.kind = "rank"
    /\ lastOp.filters.sortBy = "total_revenue"
    /\ lastOp.sponsored = 0
    /\ Len(lastOp.list) = 2
    /\ lastOp.list[1].metrics # NoMetrics
    /\ lastOp.list[2].metrics = NoMetrics
    /\ lastOp.stored[1].id = lastOp.list[2].id

\* the startups of a ranked list, in its order
ListedIds(list) == [k \in 1..Len(list) |-> list[k].id]

\* C13: a call of the ranked-list query that follows a call with the same filters,
\* with the stored data unchanged between the two, returns the startups in the same
\* order as the first call did; startups of equal sort value keep their relative order.
C13_RepeatedQuerySameOrder ==
    [][(/\ lastOp.kind = "rank"
        /\ lastOp'.kind = "rank"
        /\ lastOp'.filters = lastOp.filters
        /\ UNCHANGED <<metricsCurrent, sponsorships>>)
       => ListedIds(lastOp'.list) = ListedIds(lastOp.list)]_vars

-----------------------------------------------------------------------------
(* Further properties of the sponsorship subsystem *)

\* C14: once the checkout.session.completed event of a session and the
\* customer.subscription.deleted event of its subscription have both been processed,
\* in whatever order and however often, the session's sponsorship is cancelled.
C14_CompletedAndDeletedLeaveCancelled ==
    \A n \in delivered \cap unsubscribed :
        \A i \in 1..Len(sponsorships) :
            sponsorships[i].stripe_checkout_session_id = n
            => sponsorships[i].status = "cancelled"

\* the error indicators that correspond to what is wrong with a callback request
ExpectedIndicators(q) ==
    (IF q.code = "" \/ q.state = "" THEN {"missing_params"} ELSE {})
        \cup (IF q.error # "" THEN {q.error} ELSE {})
        \cup (IF q.exchange = "failed" THEN {"token_exchange_failed"} ELSE {})
        \cup (IF q.state # "" /\ q.state \notin StartupIds THEN {"startup_not_found"} ELSE {})

\* C15: a callback request without code or state, or with a provider error parameter,
\* or whose token exchange fails, or whose state names no startup, is answered with
\* the redirect to /submit carrying the corresponding error indicator, and leaves
\* the connection, token, snapshot and history rows as they were.
C15_CallbackErrorsWriteNothing ==
    [][(lastOp'.kind = "callbackRequest" /\ ExpectedIndicators(lastOp') # {})
       => /\ lastOp'.redirect.to = "/submit"
          /\ lastOp'.redirect.error \in ExpectedIndicators(lastOp')
          /\ UNCHANGED <<connections, tokens, metricsCurrent, history>>]_vars

-----------------------------------------------------------------------------
(* C16: a checkout request for an existing startup and a sponsorship type with
   a configured price, whose session the billing provider creates, adds one
   checkout session for that startup and type and answers 200 with that
   session's id; it appends exactly one sponsorship row, pending, holding the
   configured price id and the session's id, and when the insert of that row
   fails it changes no row and answers 200 with the session's id all the same. *)
CheckoutAccepted(op) ==
    /\ op.kind = "checkout"
    /\ StartupBySlug(op.startupSlug).id # ""
    /\ op.type # ""
    /\ PriceIdOf(op.type) # ""
    /\ Len(sessions') = Len(sessions) + 1

C16_CheckoutInsertsPendingRow ==
    [][CheckoutAccepted(lastOp')
       => LET session == sessions'[Len(sessions')]
          IN /\ SubSeq(sessions', 1, Len(sessions)) = sessions
             /\ session.startup_id = StartupBySlug(lastOp'.startupSlug).id
             /\ session.type = lastOp'.type
             /\ lastOp'.status = 200
             /\ lastOp'.sessionId = session.id
             /\ IF lastOp'.inserted
                THEN /\ Len(sponsorships') = Len(sponsorships) + 1
                     /\ SubSeq(sponsorships', 1, Len(sponsorships)) = sponsorships
                     /\ LET row == sponsorships'[Len(sponsorships')]
                        IN /\ row.status = "pending"
                           /\ row.startup_id = session.startup_id
                           /\ row.type = lastOp'.type
                           /\ row.stripe_price_id = PriceIdMap[lastOp'.type]
                           /\ row.stripe_checkout_session_id = session.id
                ELSE sponsorships' = sponsorships]_vars

\* a checkout whose pending row could not be inserted was answered 200 with the
\* id of the session it created, while an earlier checkout's row is in place
C16_Witness ==
    /\ lastOp.kind = "checkout"
    /\ lastOp.status = 200
    /\ ~lastOp.inserted
    /\ lastOp.sessionId = 2
    /\ Len(sessions) = 2
    /\ Len(sponsorships) = 1
    /\ sponsorships[1].status = "pending"

-----------------------------------------------------------------------------
(* OAuth initiation: GET /api/providers/stripe/connect, in the two handlers
   that verify the startup *)

AuthorizeEndpoint == "https://connect.stripe.com/oauth/authorize"

\* NextResponse.redirect answers 307 unless told otherwise
Redirect(to, error) ==
    [status |-> 307, to |-> to, error |-> error, client_id |-> "", scope |-> "",
     redirect_uri |-> "", state |-> ""]

PlainResponse(status) ==
    [status |-> status, to |-> "", error |-> "", client_id |-> "", scope |-> "",
     redirect_uri |-> "", state |-> ""]

\* the state of the handler that packs the startup id into base64-encoded JSON
EncodedState(startupId) == "base64({startupId:" \o startupId \o "})"

\* the state parameter: the startup id as it is
OAuthState(startupId) == startupId

AuthorizeRedirect(clientId, startupId) ==
    [status |-> 307, to |-> AuthorizeEndpoint, error |-> "", client_id |-> clientId,
     scope |-> "read_write", redirect_uri |-> "/api/providers/stripe/callback",
     state |-> OAuthState(startupId)]

\* clientId is STRIPE_CLIENT_ID of the environment, "" when it is not set
ConnectResult(handler, startupId, clientId) ==
    LET startup == StartupById(startupId)
    IN IF handler = "first"
       THEN IF startupId = "" THEN PlainResponse(400)
            ELSE IF startup.id = "" THEN Redirect("/submit", "")
            \* an unset client id is interpolated as the string "undefined"
            ELSE AuthorizeRedirect(IF clientId = "" THEN "undefined" ELSE clientId,
                                   startup.id)
       ELSE IF startupId = "" THEN Redirect("/submit", "missing_startup_id")
            ELSE IF startup.id = "" THEN Redirect("/submit", "startup_not_found")
            ELSE IF clientId = "" THEN Redirect("/submit", "stripe_not_configured")
            ELSE AuthorizeRedirect(clientId, startupId)

Connect(handler, startupId, clientId) ==
    /\ lastOp' = [kind |-> "connect", handler |-> handler, startupId |-> startupId,
                  clientId |-> clientId,
                  answer |-> ConnectResult(handler, startupId, clientId)]
    /\ UNCHANGED <<connections, tokens, metricsCurrent, history, sponsorships, sessions,
                   today, cronSecret, syncedToday, delivered, unsubscribed, inflight>>

ConnectStep(handler) ==
    \E startupId \in {"", "s1", "s2", UnknownStartupId}, clientId \in {"", "ca_1"} :
        Connect(handler, startupId, clientId)

NextConnect ==
    \/ ConnectStep("first")
    \/ ConnectStep("later")
    \/ CallbackRequestStep("first", NoFaults)
    \/ AdvanceDay

SpecConnect == Init /\ [][NextConnect]_vars

\* the initiation names a startup the store holds
ConnectsExistingStartup(op) == op.kind = "connect" /\ op.startupId \in StartupIds

\* the initiation names a startup the store does not hold
ConnectsUnknownStartup(op) ==
    op.kind = "connect" /\ op.startupId # "" /\ op.startupId \notin StartupIds

StoredTablesUnchanged ==
    UNCHANGED <<connections, tokens, metricsCurrent, history, sponsorships>>

RedirectsToProvider(op) ==
    /\ op.answer.status = 307
    /\ op.answer.to = AuthorizeEndpoint
    /\ op.answer.state = op.startupId

(* C17 as stated: an OAuth initiation leaves every stored table unchanged; when
   the startup exists it redirects to the provider's authorization endpoint with
   state equal to the startup's id, and when the startup does not exist it
   redirects to /submit and not to the provider. *)
C17_InitiationRedirectsToProvider ==
    [][lastOp'.kind = "connect"
       => /\ StoredTablesUnchanged
          /\ ConnectsExistingStartup(lastOp') => RedirectsToProvider(lastOp')
          /\ ConnectsUnknownStartup(lastOp')
             => lastOp'.answer.status = 307 /\ lastOp'.answer.to = "/submit"]_vars

(* C17 amended: an OAuth initiation leaves every stored table unchanged; when
   the startup exists it redirects to the provider's authorization endpoint with
   state equal to the startup's id, except that the later handler, when no
   client id is configured, redirects to /submit with stripe_not_configured;
   when the startup does not exist it redirects to /submit and not to the
   provider. *)
C17_InitiationRedirectsWhenConfigured ==
    [][lastOp'.kind = "connect"
       => /\ StoredTablesUnchanged
          /\ ConnectsExistingStartup(lastOp')
             => IF lastOp'.handler = "later" /\ lastOp'.clientId = ""
                THEN lastOp'.answer = Redirect("/submit", "stripe_not_configured")
                ELSE RedirectsToProvider(lastOp')
          /\ ConnectsUnknownStartup(lastOp')
             => lastOp'.answer.status = 307 /\ lastOp'.answer.to = "/submit"]_vars

\* with a connection, a token and metrics stored for s1, the later handler has
\* sent a request for s1 to the provider with state s1
C17_Witness ==
    /\ lastOp.kind = "connect"
    /\ lastOp.handler = "later"
    /\ lastOp.startupId = "s1"
    /\ lastOp.answer.to = AuthorizeEndpoint
    /\ lastOp.answer.state = "s1"
    /\ Len(connections) = 1
    /\ Cardinality(tokens) = 1
    /\ metricsCurrent["s1"] # NoMetrics

-----------------------------------------------------------------------------
\* the request lacks a field, names no startup, or names a type without a price
CheckoutInputError(op) ==
    /\ op.kind = "checkout"
    /\ \/ op.startupSlug = ""
       \/ op.type = ""
       \/ StartupBySlug(op.startupSlug).id = ""
       \/ PriceIdOf(op.type) = ""

(* C18: a checkout request with a missing slug, a missing type, an unknown
   startup slug or a sponsorship type without a configured price is answered
   with a status between 400 and 499 and a message, and it creates no checkout
   session and inserts no sponsorship row. *)
C18_CheckoutInputErrorsAre4xx ==
    [][CheckoutInputError(lastOp')
       => /\ lastOp'.status \in 400..499
          /\ lastOp'.error # ""
          /\ UNCHANGED <<sessions, sponsorships>>]_vars

-----------------------------------------------------------------------------
\* the sponsorship rows of one startup whose status is active
ActiveRowsOf(rows, startupId) ==
    { i \in 1..Len(rows) : rows[i].startup_id = startupId /\ rows[i].status = "active" }

(* C19: in every reachable state, whatever checkouts, webhook events and admin
   deactivations have happened, each startup has at most one sponsorship row
   with status active. *)
C19_AtMostOneActivePerStartup ==
    \A s \in StartupIds : Cardinality(ActiveRowsOf(sponsorships, s)) <= 1

-----------------------------------------------------------------------------
(* The stripe adapter's MRR: stripeAdapter.fetchMetrics over the prices of the
   active subscriptions *)

MaxIntervalCount == 3

RECURSIVE Gcd(_, _)
Gcd(a, b) == IF b = 0 THEN a ELSE Gcd(b, a % b)

RECURSIVE LcmUpTo(_)
LcmUpTo(n) == IF n <= 1 THEN 1 ELSE (LcmUpTo(n - 1) * n) \div Gcd(LcmUpTo(n - 1), n)

\* monthly amounts are kept exactly, as whole multiples of 1/Denominator of a
\* minor unit: every n * 12 and every n * 100 with n <= MaxIntervalCount divides it
Denominator == 300 * LcmUpTo(MaxIntervalCount)

Intervals == {"month", "year", "week", "day"}

UnitAmounts == {0, 50, 149, 1200}

RecurringPrices ==
    [recurring : {TRUE}, unit_amount : UnitAmounts, interval : Intervals,
     interval_count : 1..MaxIntervalCount]

OneTimePrice == [recurring |-> FALSE, unit_amount |-> 1200, interval |-> "", interval_count |-> 0]

Prices == RecurringPrices \cup {OneTimePrice}

\* the active subscriptions of an account, each the sequence of its items' prices
Accounts ==
    {<<>>} \cup { <<(<<p>>)>> : p \in Prices }
           \cup { <<(<<p, q>>)>> : p \in Prices, q \in Prices }
           \cup { <<(<<p>>), (<<q>>)>> : p \in Prices, q \in Prices }

\* price.recurring.interval_count || 1
IntervalCountOf(price) == IF price.interval_count = 0 THEN 1 ELSE price.interval_count

\* a normalisation that takes every price as billed once per interval
MonthlyAmountPerInterval(price) ==
    IF price.interval = "month" THEN price.unit_amount * Denominator
    ELSE IF price.interval = "year" THEN price.unit_amount * (Denominator \div 12)
    ELSE IF price.interval = "week" THEN price.unit_amount * 433 * (Denominator \div 100)
    ELSE IF price.interval = "day" THEN price.unit_amount * 30 * Denominator
    ELSE 0

\* monthlyAmount of one recurring price, in 1/Denominator of a minor unit
MonthlyAmount(price) ==
    LET amount == price.unit_amount
        intervalCount == IntervalCountOf(price)
    IN IF price.interval = "month" THEN amount * (Denominator \div intervalCount)
       ELSE IF price.interval = "year" THEN amount * (Denominator \div (intervalCount * 12))
       ELSE IF price.interval = "week"
       THEN amount * 433 * (Denominator \div (intervalCount * 100))
       ELSE IF price.interval = "day" THEN amount * 30 * (Denominator \div intervalCount)
       ELSE 0

\* the items the loop does not skip
RecurringItems(subscriptions) ==
    { <<s, i>> \in (1..Len(subscriptions)) \X (1..2) :
        i <= Len(subscriptions[s]) /\ subscriptions[s][i].recurring }

RECURSIVE SumMonthly(_, _)
SumMonthly(subscriptions, items) ==
    IF items = {} THEN 0
    ELSE LET it == CHOOSE x \in items : TRUE
         IN MonthlyAmount(subscriptions[it[1]][it[2]])
            + SumMonthly(subscriptions, items \ {it})

\* let mrr accumulate over every item of every subscription
MrrSum(subscriptions) == SumMonthly(subscriptions, RecurringItems(subscriptions))

\* Math.round(mrr / 100): the nearest integer, a half rounding up
RoundedMrr(sum) == (sum + 50 * Denominator) \div (100 * Denominator)

FetchMetricsMrr(subscriptions) == RoundedMrr(MrrSum(subscriptions))

InitMrr ==
    /\ connections = <<>>
    /\ tokens = {}
    /\ metricsCurrent = [s \in StartupIds |-> NoMetrics]
    /\ history = EmptyBag
    /\ sponsorships = <<>>
    /\ sessions = <<>>
    /\ today = 0
    /\ cronSecret = ""
    /\ syncedToday = {}
    /\ delivered = {}
    /\ unsubscribed = {}
    /\ inflight = NoCallbacks
    /\ \E subscriptions \in Accounts :
          lastOp = [kind |-> "account", subscriptions |-> subscriptions]

FetchMetrics ==
    /\ lastOp.kind = "account"
    /\ lastOp' = [kind |-> "fetchMetrics", subscriptions |-> lastOp.subscriptions,
                  mrr |-> FetchMetricsMrr(lastOp.subscriptions)]
    /\ UNCHANGED <<connections, tokens, metricsCurrent, history, sponsorships, sessions,
                   today, cronSecret, syncedToday, delivered, unsubscribed, inflight>>

NextMrr == FetchMetrics

SpecMrr == InitMrr /\ [][NextMrr]_vars

\* c is the monthly contribution the normalisation rule gives the price: a/n for
\* a month, a/n/12 for a year, a/n*4.33 for a week, a/n*30 for a day
IsContribution(price, c) ==
    LET a == price.unit_amount * Denominator
        n == price.interval_count
    IN CASE price.interval = "month" -> c * n = a
         [] price.interval = "year" -> c * n * 12 = a
         [] price.interval = "week" -> c * n * 100 = a * 433
         [] price.interval = "day" -> c * n = a * 30

(* C20: for every recurring price of amount a, interval_count n >= 1 and
   interval month, year, week or day the item's monthly contribution is a/n,
   a/n/12, a/n*4.33 or a/n*30; the adapter's mrr is the sum of the contributions
   of all items of all active subscriptions, divided by 100, rounded to the
   nearest integer; one price of 1200 billed yearly gives 1. *)
C20_MrrIsRoundedMonthlySum ==
    lastOp.kind = "fetchMetrics"
    => LET subs == lastOp.subscriptions
           sum == MrrSum(subs)
       IN /\ \A it \in RecurringItems(subs) :
                LET price == subs[it[1]][it[2]]
                IN IsContribution(price, MonthlyAmount(price))
          /\ lastOp.mrr >= 0
          \* no integer is nearer to sum / 100 than mrr
          /\ lastOp.mrr * 100 * Denominator - sum <= 50 * Denominator
          /\ sum - lastOp.mrr * 100 * Denominator <= 50 * Denominator
          /\ subs = <<(<<[recurring |-> TRUE, unit_amount |-> 1200, interval |-> "year",
                          interval_count |-> 1]>>)>>
             => lastOp.mrr = 1

\* two subscriptions, 149 a month and 50 every second week, give
\* (149 + 108.25) / 100, rounded to 3
C20_Witness ==
    /\ lastOp.kind = "fetchMetrics"
    /\ lastOp.subscriptions =
         <<(<<[recurring |-> TRUE, unit_amount |-> 149, interval |-> "month",
               interval_count |-> 1]>>),
           (<<[recurring |-> TRUE, unit_amount |-> 50, interval |-> "week",
               interval_count |-> 2]>>)>>
    /\ lastOp.mrr = 3

-----------------------------------------------------------------------------
(* C21: a callback whose token exchange gave an account and an access token and
   whose startup was found leaves a provider_tokens row holding that access
   token and keyed by a stripe connection of the startup, whether its write of
   the provider_connections row succeeded or failed. *)
C21_TokenWrittenWhateverTheConnectionWrite ==
    (/\ lastOp.kind = "callback"
     /\ lastOp.connWrite \in {"inserted", "updated", "failed"}
     /\ lastOp.accessToken # ""
     /\ ~lastOp.faults.token)
    => \E t \in tokens :
          /\ t.access_token = lastOp.accessToken
          /\ \E i \in StripeRows(connections, lastOp.state) :
                connections[i].id = t.provider_connection_id

-----------------------------------------------------------------------------
\* a processed checkout.session.completed event with complete metadata whose
\* session id no sponsorship row holds
CompletedWithoutItsRow(op, rows) ==
    /\ op.kind = "webhook"
    /\ op.status = 200
    /\ op.event.type = "checkout.session.completed"
    /\ op.event.object.startup_id # ""
    /\ op.event.object.type # ""
    /\ op.event.object.customer # 0
    /\ op.event.object.subscription # 0
    /\ \A i \in 1..Len(rows) : rows[i].stripe_checkout_session_id # op.event.object.id

\* the pending rows of a session's startup and type
PendingRowsFor(rows, session) ==
    { i \in 1..Len(rows) : /\ rows[i].startup_id = session.startup_id
                           /\ rows[i].type = session.type
                           /\ rows[i].status = "pending" }

(* C22: when a completed event with complete metadata finds no sponsorship row
   with its session id, the most recently created pending row of the same
   startup and type becomes active with the event's customer and subscription
   ids and start_date today, and every other row stays as it was; without such
   a pending row no row changes. *)
C22_FallbackActivatesLatestPending ==
    [][CompletedWithoutItsRow(lastOp', sponsorships)
       => LET session == lastOp'.event.object
              pending == PendingRowsFor(sponsorships, session)
          IN /\ Len(sponsorships') = Len(sponsorships)
             /\ \A i \in 1..Len(sponsorships) :
                  IF i \in pending /\ \A j \in pending : sponsorships[j].id <= sponsorships[i].id
                  THEN /\ sponsorships'[i].status = "active"
                       /\ sponsorships'[i].stripe_customer_id = session.customer
                       /\ sponsorships'[i].stripe_subscription_id = session.subscription
                       /\ sponsorships'[i].start_date = today
                       /\ sponsorships'[i].id = sponsorships[i].id
                       /\ sponsorships'[i].startup_id = sponsorships[i].startup_id
                       /\ sponsorships'[i].type = sponsorships[i].type
                       /\ sponsorships'[i].stripe_checkout_session_id
                            = sponsorships[i].stripe_checkout_session_id
                  ELSE sponsorships'[i] = sponsorships[i]]_vars

\* the event of session 1, whose row was never inserted, activated the later of
\* two pending rows of its startup and type and left the earlier one pending
C22_Witness ==
    /\ lastOp.kind = "webhook"
    /\ lastOp.status = 200
    /\ lastOp.event.type = "checkout.session.completed"
    /\ lastOp.event.object.id = 1
    /\ Len(sponsorships) = 2
    /\ sponsorships[1].stripe_checkout_session_id = 2
    /\ sponsorships[1].status = "pending"
    /\ sponsorships[2].stripe_checkout_session_id = 3
    /\ sponsorships[2].status = "active"
    /\ sponsorships[2].stripe_subscription_id = 1
    /\ sponsorships[1].startup_id = sponsorships[2].startup_id
    /\ sponsorships[1].type = sponsorships[2].type

-----------------------------------------------------------------------------
\* a webhook request that passed verification and carried an event of this type
Processed(op, type) == op.kind = "webhook" /\ op.status = 200 /\ op.event.type = type

\* the rows holding a subscription id; an absent id (0) matches none
RowsOfSubscription(rows, subscriptionId) ==
    { i \in 1..Len(rows) : subscriptionId # 0 /\ rows[i].stripe_subscription_id = subscriptionId }

(* C23: processing invoice.paid leaves the sponsorship that holds the event's
   subscription id active, with every other field of it, start_date and
   end_date among them, as it was, and changes no other sponsorship; an event
   without a subscription id, or one that matches no sponsorship, changes
   nothing. *)
C23_InvoicePaidOnlyActivates ==
    [][Processed(lastOp', "invoice.paid")
       => LET match == RowsOfSubscription(sponsorships, lastOp'.event.object.subscription)
          IN /\ Len(sponsorships') = Len(sponsorships)
             /\ \A i \in 1..Len(sponsorships) :
                  sponsorships'[i] = IF i \in match
                                     THEN [sponsorships[i] EXCEPT !.status = "active"]
                                     ELSE sponsorships[i]]_vars

\* invoice.paid for subscription 1 re-activated the row that a deleted event
\* had cancelled, and the row kept its end date
C23_Witness ==
    /\ Processed(lastOp, "invoice.paid")
    /\ lastOp.event.object.subscription = 1
    /\ Len(sponsorships) = 2
    /\ sponsorships[1].stripe_subscription_id = 1
    /\ sponsorships[1].status = "active"
    /\ sponsorships[1].end_date # NoDate
    /\ sponsorships[2].status = "pending"

-----------------------------------------------------------------------------
\* the row as a cancellation on the current date leaves it
Cancelled(row) == [row EXCEPT !.status = "cancelled", !.end_date = today]

(* C24: processing customer.subscription.deleted cancels exactly the
   sponsorship that holds the event's subscription id, and an admin
   deactivation exactly the sponsorship of the given id: its status becomes
   cancelled, its end_date the current date, and no other sponsorship changes;
   an event that matches no sponsorship changes nothing; a cancel of an already
   cancelled sponsorship leaves it cancelled. *)
C24_CancelTouchesOneRow ==
    [][/\ Processed(lastOp', "customer.subscription.deleted")
          => LET match == RowsOfSubscription(sponsorships, lastOp'.event.object.id)
             IN /\ Len(sponsorships') = Len(sponsorships)
                /\ Cardinality(match) <= 1
                /\ \A i \in 1..Len(sponsorships) :
                     sponsorships'[i] = IF i \in match THEN Cancelled(sponsorships[i])
                                        ELSE sponsorships[i]
       /\ (lastOp'.kind = "deactivate" /\ lastOp'.status = 200)
          => /\ Len(sponsorships') = Len(sponsorships)
             /\ \A i \in 1..Len(sponsorships) :
                  sponsorships'[i] = IF sponsorships[i].id = lastOp'.id
                                     THEN Cancelled(sponsorships[i])
                                     ELSE sponsorships[i]]_vars

\* on day 1 an admin deactivated sponsorship 1, whose completed and deleted
\* events had both been processed; sponsorship 2 of the same startup is active
C24_Witness ==
    /\ lastOp.kind = "deactivate"
    /\ lastOp.status = 200
    /\ lastOp.id = 1
    /\ 1 \in delivered
    /\ 1 \in unsubscribed
    /\ today = 1
    /\ Len(sponsorships) = 2
    /\ sponsorships[1].status = "cancelled"
    /\ sponsorships[1].stripe_subscription_id = 1
    /\ sponsorships[1].end_date = 1
    /\ sponsorships[2].status = "active"

-----------------------------------------------------------------------------
\* the place of a status in the lifecycle pending, active, cancelled
StatusRank(status) ==
    CASE status = "pending" -> 1
      [] status = "active" -> 2
      [] status = "cancelled" -> 3
      [] OTHER -> 0

(* C25: no operation moves a sponsorship backwards along pending, active,
   cancelled, and no operation sets the status expired. *)
C25_StatusOnlyMovesForward ==
    [][\A i \in 1..Len(sponsorships) :
          /\ i <= Len(sponsorships')
          /\ sponsorships'[i].status # "expired"
          /\ StatusRank(sponsorships'[i].status) >= StatusRank(sponsorships[i].status)]_vars

-----------------------------------------------------------------------------
\* the positions in the batch of the connections without a registered adapter
UnregisteredInBatch(conns) ==
    { i \in 1..Len(conns) : conns[i].provider \notin RegisteredProviders }

\* the history rows of one startup
HistoryOf(hist, startupId) == { h \in BagToSet(hist) : h.startup_id = startupId }

(* C26: in a batch sync a connection whose provider has no registered adapter
   gets an error result carrying the registry's "No adapter registered" message
   with the available providers; its connection row stays as it was and, unless
   another connection of the same startup was synced, so do the startup's
   current metrics and history; every connection after it still gets its
   result. *)
C26_UnregisteredProviderFailsAlone ==
    [][(lastOp'.kind = "batch" /\ lastOp'.status = 200)
       => LET conns == ConnectionsToSync
          IN /\ Len(lastOp'.results) = Len(conns)
             /\ \A i \in 1..Len(conns) :
                  LET r == lastOp'.results[i] IN
                  IF i \in UnregisteredInBatch(conns)
                  THEN /\ r.status = "error"
                       /\ r.startup_id = conns[i].startup_id
                       /\ r.provider = conns[i].provider
                       /\ r.error = "No adapter registered for provider: "
                                       \o conns[i].provider \o ". Available: stripe"
                       /\ connections'[conns[i].id] = connections[conns[i].id]
                       /\ (\A j \in 1..Len(conns) :
                              conns[j].startup_id = conns[i].startup_id
                              => lastOp'.results[j].status = "error")
                          => /\ metricsCurrent'[r.startup_id] = metricsCurrent[r.startup_id]
                             /\ HistoryOf(history', r.startup_id)
                                  = HistoryOf(history, r.startup_id)
                  ELSE r.status = "success" <=> lastOp'.outcome[conns[i].id] \in FetchResults]_vars

\* a batch over the paddle connection of s2 and the stripe connection of s1: the
\* first failed for want of an adapter, the second was synced
C26_Witness ==
    /\ lastOp.kind = "batch"
    /\ lastOp.status = 200
    /\ Len(lastOp.results) = 2
    /\ lastOp.results[1].provider = "paddle"
    /\ lastOp.results[1].startup_id = "s2"
    /\ lastOp.results[1].status = "error"
    /\ lastOp.results[2].provider = "stripe"
    /\ lastOp.results[2].status = "success"
    /\ metricsCurrent["s2"] = NoMetrics
    /\ metricsCurrent["s1"] # NoMetrics
    /\ connections[1].last_synced_at = NoDate

-----------------------------------------------------------------------------
\* the sync of this connection fails: no adapter, or fetchMetrics throws
SyncFails(conn, outcome) ==
    conn.provider \notin RegisteredProviders \/ outcome[conn.id] = FetchThrows

(* C28: a batch sync leaves the last_synced_at of every connection whose
   adapter lookup or fetchMetrics failed as it was, and when every connection
   of a startup failed it leaves the startup's current-metrics row and its
   history rows as they were; last_synced_at changes only for a connection
   whose fetch succeeded. *)
C28_FailedSyncWritesNothing ==
    [][(lastOp'.kind = "batch" /\ lastOp'.status = 200)
       => LET conns == ConnectionsToSync
              outcome == lastOp'.outcome
          IN /\ \A i \in 1..Len(conns) :
                  SyncFails(conns[i], outcome)
                  => /\ connections'[conns[i].id] = connections[conns[i].id]
                     /\ (\A j \in 1..Len(conns) :
                            conns[j].startup_id = conns[i].startup_id
                            => SyncFails(conns[j], outcome))
                        => /\ metricsCurrent'[conns[i].startup_id]
                                = metricsCurrent[conns[i].startup_id]
                           /\ HistoryOf(history', conns[i].startup_id)
                                = HistoryOf(history, conns[i].startup_id)
                           /\ HistoryCount(history', conns[i].startup_id, today)
                                = HistoryCount(history, conns[i].startup_id, today)
             /\ \A k \in 1..Len(connections) :
                  connections'[k].last_synced_at # connections[k].last_synced_at
                  => \E i \in 1..Len(conns) :
                        conns[i].id = k /\ ~SyncFails(conns[i], outcome)]_vars

\* on day 1 the fetch for the stripe connection of s1 threw: the connection and
\* the metrics row still carry day 0, and there is no history row for day 1
C28_Witness ==
    /\ lastOp.kind = "batch"
    /\ lastOp.status = 200
    /\ today = 1
    /\ Len(lastOp.results) = 2
    /\ lastOp.results[2].provider = "stripe"
    /\ lastOp.results[2].status = "error"
    /\ connections[2].last_synced_at = 0
    /\ metricsCurrent["s1"] # NoMetrics
    /\ metricsCurrent["s1"].provider_last_synced_at = 0
    /\ HistoryCount(history, "s1", 0) >= 1
    /\ HistoryCount(history, "s1", 1) = 0

-----------------------------------------------------------------------------
(* The adapter's listing loops: subscriptions.list and invoices.list, page by
   page.  The provider's pages are given by their lengths; the items are
   numbered 1, 2, ... in the order of the pages, and every page but the last
   says has_more. *)

MaxPages == 3

MaxPageLength == 2

PageSequences == UNION { [1..k -> 0..MaxPageLength] : k \in 1..MaxPages }

\* the number of the last item of page p (0 before the first page)
RECURSIVE EndOfPage(_, _)
EndOfPage(lens, p) == IF p = 0 THEN 0 ELSE EndOfPage(lens, p - 1) + lens[p]

\* the items numbered from + 1 .. to
ItemsBetween(from, to) == [i \in 1..(to - from) |-> from + i]

\* the page the provider serves for a cursor: the rest of the cursor's page, or
\* the next page when the cursor is the last item of its page; 0 is no cursor
PageServed(lens, startingAfter) ==
    IF startingAfter = 0 THEN 1
    ELSE LET q == CHOOSE r \in 1..Len(lens) :
                     EndOfPage(lens, r - 1) < startingAfter
                     /\ startingAfter <= EndOfPage(lens, r)
         IN IF startingAfter < EndOfPage(lens, q) \/ q = Len(lens) THEN q ELSE q + 1

\* the provider's answer to list({ status, limit, starting_after })
ProviderPage(lens, startingAfter) ==
    LET p == PageServed(lens, startingAfter)
    IN [data |-> ItemsBetween(startingAfter, EndOfPage(lens, p)),
        has_more |-> p < Len(lens)]

\* startingAfter after a page: the id of its last item, when it says has_more
\* and holds an item
NextCursor(startingAfter, page) ==
    IF page.has_more /\ Len(page.data) > 0 THEN page.data[Len(page.data)]
    ELSE startingAfter

\* before the first request: allSubscriptions / allInvoices empty, hasMore true,
\* startingAfter undefined
InitListing ==
    /\ connections = <<>>
    /\ tokens = {}
    /\ metricsCurrent = [s \in StartupIds |-> NoMetrics]
    /\ history = EmptyBag
    /\ sponsorships = <<>>
    /\ sessions = <<>>
    /\ today = 0
    /\ cronSecret = ""
    /\ syncedToday = {}
    /\ delivered = {}
    /\ unsubscribed = {}
    /\ inflight = NoCallbacks
    /\ \E lens \in PageSequences, resource \in {"subscriptions", "invoices"} :
          lastOp = [kind |-> "listing", resource |-> resource, pages |-> lens,
                    all |-> <<>>, hasMore |-> TRUE, startingAfter |-> 0]

\* one pass through the body of the while loop
ListPage ==
    /\ lastOp.kind = "listing"
    /\ lastOp.hasMore
    /\ LET page == ProviderPage(lastOp.pages, lastOp.startingAfter)
       IN lastOp' = [lastOp EXCEPT !.all = @ \o page.data,
                                   !.hasMore = page.has_more,
                                   !.startingAfter = NextCursor(@, page)]
    /\ UNCHANGED <<connections, tokens, metricsCurrent, history, sponsorships, sessions,
                   today, cronSecret, syncedToday, delivered, unsubscribed, inflight>>

NextListing == ListPage

\* the loop runs on while its condition holds
SpecListing == InitListing /\ [][NextListing]_vars /\ WF_vars(ListPage)

\* every item of every page, once, in the provider's order
AllItems(lens) == ItemsBetween(0, EndOfPage(lens, Len(lens)))

\* the id of the last item collected so far, 0 when there is none
LastCollected(all) == IF all = <<>> THEN 0 ELSE all[Len(all)]

\* the loop has ended with every item of every page collected exactly once
ListedAll == ~lastOp.hasMore /\ lastOp.all = AllItems(lastOp.pages)

\* while has_more is true the next request starts after the last item collected
CursorFollowsLastItem ==
    [][lastOp'.hasMore => lastOp'.startingAfter = LastCollected(lastOp'.all)]_vars

(* C27: for every finite sequence of provider pages the listing loop
   terminates, and when it does it has collected every item of every page
   exactly once; while has_more is true each request starts after the last
   item of the previous page. *)
C27_ListingTerminatesComplete ==
    /\ <>ListedAll
    /\ [](~lastOp.hasMore => ListedAll)
    /\ CursorFollowsLastItem

-----------------------------------------------------------------------------
(* C29: a callback answers with the redirect to /startup/{slug}?connected=1
   only if the store then holds a provider_connections row of that startup for
   stripe with status connected. *)
C29_SuccessRedirectImpliesConnection ==
    (/\ lastOp.kind = "callback"
     /\ lastOp.redirect = StartupConnected(StartupById(lastOp.state).slug))
    => \E i \in StripeRows(connections, lastOp.state) : connections[i].status = "connected"

-----------------------------------------------------------------------------
(* Concurrent OAuth callbacks: the handler's awaits taken one at a time, for
   requests whose token exchange gave an account and whose startup was found.
   The writes of the metrics try block are taken together: they touch neither
   provider_connections nor provider_tokens. *)

RaceTokens ==
    { [stripe_user_id |-> "acct_1", access_token |-> "sk_1"],
      [stripe_user_id |-> "acct_2", access_token |-> "sk_2"] }

CallbackStepDone(p, step) == [kind |-> "callbackStep", slot |-> p, step |-> step]

\* up to the lookup of the existing connection (.maybeSingle())
QueryExisting(p, state, tok) ==
    /\ inflight[p] = Idle
    /\ inflight' = [inflight EXCEPT ![p] =
                      [pc |-> "queried", state |-> state, tok |-> tok,
                       existing |-> ExistingConnection(connections, state),
                       connectionId |-> 0]]
    /\ lastOp' = CallbackStepDone(p, "query")
    /\ UNCHANGED <<connections, tokens, metricsCurrent, history, sponsorships, sessions,
                   today, cronSecret, syncedToday, delivered, unsubscribed>>

\* the update of the row found, or the insert of a new one; an insert refused by
\* the uniqueness constraint ends the request with the "connected" redirect
WriteConnection(p) ==
    LET r == inflight[p] IN
    /\ r.pc = "queried"
    /\ IF r.existing # 0
       THEN /\ connections' = [connections EXCEPT ![r.existing] =
                                 [@ EXCEPT !.provider_account_id = r.tok.stripe_user_id,
                                           !.status = "connected",
                                           !.last_synced_at = today]]
            /\ inflight' = [inflight EXCEPT ![p] =
                              [r EXCEPT !.pc = "connected", !.connectionId = r.existing]]
       ELSE IF ConnectionUniqueViolated(connections, r.state, "stripe")
       THEN /\ inflight' = [inflight EXCEPT ![p] = [r EXCEPT !.pc = "done"]]
            /\ UNCHANGED connections
       ELSE /\ connections' =
                 Append(connections,
                        [id |-> Len(connections) + 1, startup_id |-> r.state,
                         provider |-> "stripe",
                         provider_account_id |-> r.tok.stripe_user_id,
                         status |-> "connected", last_synced_at |-> today])
            /\ inflight' = [inflight EXCEPT ![p] =
                              [r EXCEPT !.pc = "connected",
                                        !.connectionId = Len(connections) + 1]]
    /\ lastOp' = CallbackStepDone(p, "connection")
    /\ UNCHANGED <<tokens, metricsCurrent, history, sponsorships, sessions, today,
                   cronSecret, syncedToday, delivered, unsubscribed>>

\* the token upsert
WriteToken(p) ==
    LET r == inflight[p] IN
    /\ r.pc = "connected"
    /\ tokens' = IF r.tok.access_token # ""
                 THEN UpsertToken(tokens, r.connectionId, r.tok.access_token)
                 ELSE tokens
    /\ inflight' = [inflight EXCEPT ![p] = [r EXCEPT !.pc = "tokenStored"]]
    /\ lastOp' = CallbackStepDone(p, "token")
    /\ UNCHANGED <<connections, metricsCurrent, history, sponsorships, sessions, today,
                   cronSecret, syncedToday, delivered, unsubscribed>>

\* the metrics try block and the final redirect
SyncAndRedirect(p, fetch) ==
    LET r == inflight[p]
        hist1 == IF fetch \in FetchResults
                 THEN InsertHistory(history, HistoryRow(r.state, fetch, "stripe", today))
                 ELSE history
    IN
    /\ r.pc = "tokenStored"
    /\ BagCardinality(hist1) <= MaxHistory
    /\ metricsCurrent' = IF fetch \in FetchResults
                         THEN UpsertCurrent(metricsCurrent, r.state, fetch, "stripe", today)
                         ELSE metricsCurrent
    /\ history' = hist1
    /\ inflight' = [inflight EXCEPT ![p] = [r EXCEPT !.pc = "done"]]
    /\ lastOp' = CallbackStepDone(p, "metrics")
    /\ UNCHANGED <<connections, tokens, sponsorships, sessions, today, cronSecret,
                   syncedToday, delivered, unsubscribed>>

\* an earlier callback that ran alone, before the two concurrent ones
EarlierCallback ==
    /\ inflight = NoCallbacks
    /\ connections = <<>>
    /\ CallbackStep({"ac_1"}, {"s1"},
                    {[stripe_user_id |-> "acct_1", access_token |-> "sk_1"]}, NoFaults)

NextRace ==
    \/ EarlierCallback
    \/ \E p \in Slots, tok \in RaceTokens : QueryExisting(p, "s1", tok)
    \/ \E p \in Slots : WriteConnection(p)
    \/ \E p \in Slots : WriteToken(p)
    \/ \E p \in Slots, fetch \in FetchOutcomes : SyncAndRedirect(p, fetch)

SpecRace == InitSponsor /\ [][NextRace]_vars

\* both requests have returned
BothReturned == \A p \in Slots : inflight[p].pc = "done"

(* C30: when two callbacks for the same startup have run concurrently, in any
   interleaving of their store requests and so also when both looked for the
   existing connection before either wrote, the store holds exactly one
   provider_connections row for (startup, stripe) and at most one
   provider_tokens row, and that token row references that connection row. *)
C30_ConcurrentCallbacksOneConnection ==
    BothReturned
    => /\ Cardinality(StripeRows(connections, "s1")) = 1
       /\ Cardinality(tokens) <= 1
       /\ \A t \in tokens :
            \E i \in StripeRows(connections, "s1") :
                connections[i].id = t.provider_connection_id

\* both requests found no connection, so both queried before either inserted;
\* they have returned, one row and one token row referencing it are stored
C30_Witness ==
    /\ BothReturned
    /\ \A p \in Slots : inflight[p].existing = 0
    /\ inflight[1].tok # inflight[2].tok
    /\ Len(connections) = 1
    /\ Cardinality(tokens) = 1
    /\ \A t \in tokens : t.provider_connection_id = connections[1].id

====
